---- MODULE Spec2Model ----
(***************************************************************************)
(* Model of the SwitchTube downloader's media-resolution and download      *)
(* pipeline: the identifier classifier (extractIDAndType), the top-level   *)
(* dispatcher (Download), the channel batch (channelDownloader) and the    *)
(* selection parser (parseSelection), followed by the selection prompt     *)
(* (SelectVideos), the progress bar (ShowProgress), the body copy          *)
(* (copyWithProgress), the single-video download (downloadVideo), the      *)
(* download command (downloadCmd), the filename policy (createFilename,    *)
(* sanitizeFilename) and the progress line (truncateProgressMessage).      *)
(*                                                                         *)
(* Go strings are sequences of one-character strings.  A Go error is the   *)
(* sequence of sentinels of its %w chain, outermost first; nil is <<>>.    *)
(***************************************************************************)
EXTENDS Integers, Sequences, FiniteSets, TLC

VARIABLES
    selTokens,        \* the tokens the input string was typed from
    selInput,         \* parseSelection: the input string
    selBound,         \* parseSelection: availableVideos
    selPc,            \* "ready" before the call, "done" after it
    selIndices,       \* parseSelection: the returned slice
    selErr            \* parseSelection: the returned error

selVars == <<selTokens, selInput, selBound, selPc, selIndices, selErr>>

VARIABLES
    pc,               \* downloadChannel: the step about to run
    config,           \* cd.config
    videos,           \* the channel's video list
    selectedIndices,  \* the result of ui.SelectVideos
    cursor,           \* position of the running loop in its index list
    toDownload,       \* prepareDownloads: the work list
    failed,           \* downloadSelectedVideos: titles of failed videos
    downloads,        \* indices downloadVideo was invoked for, in call order
    fate,             \* what happened to each selected index so far
    requests,         \* the API requests issued, in order
    summary,          \* what printResults printed
    events,           \* what the batch printed, asked and started, in order
    ret,              \* the error downloadChannel returned
    callerConfig,     \* the DownloadConfig of the caller of newChannelDownloader
    usedDirs          \* the output directory each per-video operation worked with

chanVars ==
    <<pc, config, videos, selectedIndices, cursor, toDownload, failed,
      downloads, fate, requests, summary, events, ret, callerConfig, usedDirs>>

VARIABLES
    mediaParts,       \* how config.Media was typed: padding, form and tail
    media,            \* config.Media
    dPc,              \* Download: the step about to run
    dId,              \* id returned by extractIDAndType
    dType,            \* downloadType returned by extractIDAndType
    dErr,             \* err returned by extractIDAndType
    dCalls,           \* the calls Download made, in order
    dRequests,        \* the API requests issued under Download, in order
    dVideoErr,        \* what the downloadVideo attempt returned
    dRet              \* the error Download returned

dispVars ==
    <<mediaParts, media, dPc, dId, dType, dErr, dCalls, dRequests, dVideoErr, dRet>>

VARIABLES
    svVideos,         \* SelectVideos: the videos argument
    svAll,            \* SelectVideos: the all argument
    svTyped,          \* the line waiting on standard input
    svPc,             \* "ready" before the call, "done" after it
    svOut             \* what SelectVideos returned, printed and read

svVars == <<svVideos, svAll, svTyped, svPc, svOut>>

VARIABLES
    pgWritten,        \* ShowProgress: the written argument
    pgTotal,          \* ShowProgress: the total argument
    pgTermWidth,      \* what getTerminalWidth returns
    pgPc,             \* "ready" before the call, "done" after it
    pgOut             \* what ShowProgress rendered, or that it panicked

pgVars == <<pgWritten, pgTotal, pgTermWidth, pgPc, pgOut>>

VARIABLES
    cpSource,         \* what each src.Read will return, in order
    cpTotal,          \* copyWithProgress: the total argument
    cpTermWidth,      \* what getTerminalWidth returns
    cpPc,             \* "loop", "final", "returned" or "panicked"
    cpPos,            \* the number of the next src.Read
    cpSink,           \* the bytes dst has received
    cpWritten,        \* the local variable written
    cpLog,            \* the reads, writes and progress reports, in order
    cpErr             \* the error copyWithProgress returned

cpVars ==
    <<cpSource, cpTotal, cpTermWidth, cpPc, cpPos, cpSink, cpWritten, cpLog, cpErr>>

VARIABLES
    vImpl,            \* which downloadVideo runs: "function" or "method"
    vCheckExists,     \* videoDownloader.downloadVideo: the checkExists argument
    vConfig,          \* the DownloadConfig in force
    vEnv,             \* what the server, the disk and the user will answer
    vDisk,            \* the content of the destination file
    vPc,              \* downloadVideo: the step about to run
    vFetched,         \* what the variant fetch returned
    vOpen,            \* the destination file handle is open
    vLog,             \* the requests, file operations and prompts, in order
    vRet,             \* the error downloadVideo returned
    vPolicy           \* what the overwrite policy answered: "skip" or "proceed"

vVars ==
    <<vImpl, vCheckExists, vConfig, vEnv, vDisk, vPc, vFetched, vOpen, vLog, vRet,
      vPolicy>>

VARIABLES
    cmdArgs,          \* the number of positional arguments on the command line
    cmdPc,            \* "execute" while rootCmd.Execute runs, then "exited"
    cmdPrinted,       \* what the download command printed about an error
    exitCode          \* the exit code of the process, -1 while it runs

cmdVars == <<cmdArgs, cmdPc, cmdPrinted, exitCode>>

VARIABLES
    fnTitle,          \* createFilename: the title argument
    fnMediaType,      \* createFilename: the mediaType argument
    fnEpisode,        \* createFilename: the episodeNr argument
    fnUseEpisode,     \* createFilename: the useEpisode argument
    fnPc,             \* "ready", "done" after one call, "again" after a second
    fnOut,            \* the filename the latest call of createFilename returned
    fnSeen            \* every filename those calls returned

fnVars == <<fnTitle, fnMediaType, fnEpisode, fnUseEpisode, fnPc, fnOut, fnSeen>>

VARIABLES
    tmProgress,       \* truncateProgressMessage: the progress argument
    tmTermWidth,      \* truncateProgressMessage: the termWidth argument
    tmPc,             \* "ready" before the call, "done" after it
    tmOut             \* the string truncateProgressMessage returned

tmVars == <<tmProgress, tmTermWidth, tmPc, tmOut>>

auxVars == <<svVars, pgVars, cpVars, vVars, cmdVars, fnVars, tmVars>>

vars == <<selVars, chanVars, dispVars, auxVars>>

\* The frame of an action of group g over the groups of auxVars
AuxUnchangedExcept(g) ==
    /\ (g = "sv" \/ UNCHANGED svVars)
    /\ (g = "pg" \/ UNCHANGED pgVars)
    /\ (g = "cp" \/ UNCHANGED cpVars)
    /\ (g = "v" \/ UNCHANGED vVars)
    /\ (g = "cmd" \/ UNCHANGED cmdVars)
    /\ (g = "fn" \/ UNCHANGED fnVars)
    /\ (g = "tm" \/ UNCHANGED tmVars)

\* ------------------------------------------------------------------------
\* Bounds
\* ------------------------------------------------------------------------
MaxBound == 2
MaxTokens == 2
MaxVideos == 3
MaxTail == 2

\* ------------------------------------------------------------------------
\* Errors
\* ------------------------------------------------------------------------
NoError == <<>>

\* errors.Is(err, target) for a chain built with %w
ErrorsIs(err, target) == \E i \in 1..Len(err) : err[i] = target

\* fmt.Errorf("%w: %w", outer, inner)
Wrap(outer, inner) == <<outer>> \o inner

\* ------------------------------------------------------------------------
\* strings and strconv
\* ------------------------------------------------------------------------
Digits == <<"0", "1", "2", "3", "4", "5", "6", "7", "8", "9">>

IsDigit(c) == \E d \in 1..10 : Digits[d] = c

DigitVal(c) == (CHOOSE d \in 1..10 : Digits[d] = c) - 1

IsSpace(c) == c \in {" ", "\t"}

RECURSIVE TrimLeft(_)
TrimLeft(s) ==
    IF s # <<>> /\ IsSpace(Head(s)) THEN TrimLeft(Tail(s)) ELSE s

RECURSIVE TrimRight(_)
TrimRight(s) ==
    IF s # <<>> /\ IsSpace(s[Len(s)]) THEN TrimRight(SubSeq(s, 1, Len(s) - 1)) ELSE s

\* strings.TrimSpace
TrimSpace(s) == TrimRight(TrimLeft(s))

\* strings.HasPrefix
HasPrefix(s, prefix) ==
    /\ Len(s) >= Len(prefix)
    /\ SubSeq(s, 1, Len(prefix)) = prefix

\* strings.TrimPrefix
TrimPrefix(s, prefix) ==
    IF HasPrefix(s, prefix) THEN SubSeq(s, Len(prefix) + 1, Len(s)) ELSE s

\* strings.Contains(s, c) for a one-character c
Contains(s, c) == \E i \in 1..Len(s) : s[i] = c

\* strings.Split(s, c) for a one-character c: every piece, empty ones included
RECURSIVE SplitFrom(_, _, _)
SplitFrom(s, c, cur) ==
    IF s = <<>> THEN <<cur>>
    ELSE IF Head(s) = c THEN <<cur>> \o SplitFrom(Tail(s), c, <<>>)
    ELSE SplitFrom(Tail(s), c, Append(cur, Head(s)))

Split(s, c) == SplitFrom(s, c, <<>>)

\* The separator test parseSelection hands to strings.FieldsFunc
IsSeparator(c) == c = "," \/ c = " "

\* strings.FieldsFunc(s, IsSeparator): the maximal runs of non-separators
RECURSIVE FieldsFrom(_, _)
FieldsFrom(s, cur) ==
    IF s = <<>> THEN (IF cur = <<>> THEN <<>> ELSE <<cur>>)
    ELSE IF IsSeparator(Head(s))
         THEN (IF cur = <<>> THEN <<>> ELSE <<cur>>) \o FieldsFrom(Tail(s), <<>>)
    ELSE FieldsFrom(Tail(s), Append(cur, Head(s)))

FieldsFunc(s) == FieldsFrom(s, <<>>)

RECURSIVE DigitsValue(_, _)
DigitsValue(s, acc) ==
    IF s = <<>> THEN acc ELSE DigitsValue(Tail(s), acc * 10 + DigitVal(Head(s)))

AllDigits(s) == s # <<>> /\ \A i \in 1..Len(s) : IsDigit(s[i])

\* strconv.Atoi: an optional sign followed by at least one decimal digit
Atoi(s) ==
    LET signed == s # <<>> /\ Head(s) \in {"+", "-"}
        body   == IF signed THEN Tail(s) ELSE s
    IN  IF AllDigits(body)
        THEN [ok |-> TRUE,
              val |-> IF signed /\ Head(s) = "-"
                      THEN 0 - DigitsValue(body, 0) ELSE DigitsValue(body, 0)]
        ELSE [ok |-> FALSE, val |-> 0]

\* strconv.Itoa for n >= 0
RECURSIVE Itoa(_)
Itoa(n) ==
    IF n < 10 THEN <<Digits[n + 1]>> ELSE Itoa(n \div 10) \o <<Digits[(n % 10) + 1]>>

\* sort.Ints
RECURSIVE Insert(_, _)
Insert(x, s) ==
    IF s = <<>> THEN <<x>>
    ELSE IF x <= Head(s) THEN <<x>> \o s
    ELSE <<Head(s)>> \o Insert(x, Tail(s))

RECURSIVE SortInts(_)
SortInts(s) == IF s = <<>> THEN <<>> ELSE Insert(Head(s), SortInts(Tail(s)))

\* ------------------------------------------------------------------------
\* internal/helper/ui/selector.go
\* ------------------------------------------------------------------------
rangePartsCount == 2

\* if !seen[index] { indices = append(indices, index); seen[index] = true }
AddIndex(acc, index) ==
    IF index \in acc.seen THEN acc
    ELSE [indices |-> Append(acc.indices, index),
          seen |-> acc.seen \cup {index},
          err |-> NoError]

\* Variant: the range loop appends i instead of i - 1
RECURSIVE AddRangeOneBased(_, _, _)
AddRangeOneBased(acc, i, end) ==
    IF i > end THEN acc ELSE AddRangeOneBased(AddIndex(acc, i), i + 1, end)

\* for i := start; i <= end; i++ { ... }
RECURSIVE AddRange(_, _, _)
AddRange(acc, i, end) ==
    IF i > end THEN acc ELSE AddRange(AddIndex(acc, i - 1), i + 1, end)

Failed(sentinel) == [indices |-> <<>>, seen |-> {}, err |-> <<sentinel>>]

\* Variant: a reversed range gets an error kind of its own
handleRangeSelectionOwnKind(part, availableVideos, acc) ==
    LET rangeParts == Split(part, "-")
    IN  IF Len(rangeParts) # rangePartsCount THEN Failed("errInvalidRangeFormat")
        ELSE LET start == Atoi(TrimSpace(rangeParts[1]))
                 end   == Atoi(TrimSpace(rangeParts[2]))
             IN  IF ~start.ok THEN Failed("errInvalidStartNumber")
                 ELSE IF ~end.ok THEN Failed("errInvalidEndNumber")
                 ELSE IF start.val < 1 \/ end.val > availableVideos
                      THEN Failed("errInvalidRange")
                 ELSE IF start.val > end.val THEN Failed("errInvalidRangeFormat")
                 ELSE AddRange(acc, start.val, end.val)

handleRangeSelection(part, availableVideos, acc) ==
    LET rangeParts == Split(part, "-")
    IN  IF Len(rangeParts) # rangePartsCount THEN Failed("errInvalidRangeFormat")
        ELSE LET start == Atoi(TrimSpace(rangeParts[1]))
                 end   == Atoi(TrimSpace(rangeParts[2]))
             IN  IF ~start.ok THEN Failed("errInvalidStartNumber")
                 ELSE IF ~end.ok THEN Failed("errInvalidEndNumber")
                 ELSE IF start.val < 1 \/ end.val > availableVideos \/ start.val > end.val
                      THEN Failed("errInvalidRange")
                 ELSE AddRange(acc, start.val, end.val)

\* Variant: the upper bound of a single number is not checked
handleSingleSelectionNoUpper(part, availableVideos, acc) ==
    LET num == Atoi(part)
    IN  IF ~num.ok THEN Failed("errInvalidNumber")
        ELSE IF num.val < 1 THEN Failed("errNumberOutOfRange")
        ELSE AddIndex(acc, num.val - 1)

handleSingleSelection(part, availableVideos, acc) ==
    LET num == Atoi(part)
    IN  IF ~num.ok THEN Failed("errInvalidNumber")
        ELSE IF num.val < 1 \/ num.val > availableVideos
             THEN Failed("errNumberOutOfRange")
        ELSE AddIndex(acc, num.val - 1)

\* The loop over the parts, left to right, returning at the first error
RECURSIVE ParseParts(_, _, _)
ParseParts(parts, availableVideos, acc) ==
    IF parts = <<>> THEN acc
    ELSE LET part == TrimSpace(Head(parts))
             next == IF part = <<>> THEN acc
                     ELSE IF Contains(part, "-")
                          THEN handleRangeSelection(part, availableVideos, acc)
                     ELSE handleSingleSelection(part, availableVideos, acc)
         IN  IF next.err # NoError
             THEN [indices |-> <<>>, err |-> next.err, seen |-> {}]
             ELSE ParseParts(Tail(parts), availableVideos, next)

\* The loop over the parts going on after an error, keeping the latest one
RECURSIVE ParsePartsKeepGoing(_, _, _)
ParsePartsKeepGoing(parts, availableVideos, acc) ==
    IF parts = <<>> THEN acc
    ELSE LET part == TrimSpace(Head(parts))
             next == IF part = <<>> THEN acc
                     ELSE IF Contains(part, "-")
                          THEN handleRangeSelection(part, availableVideos, acc)
                     ELSE handleSingleSelection(part, availableVideos, acc)
         IN  IF next.err # NoError
             THEN ParsePartsKeepGoing(Tail(parts), availableVideos,
                                      [acc EXCEPT !.err = next.err])
             ELSE ParsePartsKeepGoing(Tail(parts), availableVideos,
                                      [next EXCEPT !.err = acc.err])

\* Variant: every token is looked at and the error of the last invalid
\* one is returned
parseSelectionLastError(input, availableVideos) ==
    LET acc == ParsePartsKeepGoing(FieldsFunc(input), availableVideos,
                                   [indices |-> <<>>, seen |-> {}, err |-> NoError])
    IN  IF acc.err # NoError THEN [indices |-> <<>>, err |-> acc.err]
        ELSE IF Len(acc.indices) = 0
             THEN [indices |-> <<>>, err |-> <<"errNoValidSelectionsFound">>]
        ELSE [indices |-> SortInts(acc.indices), err |-> NoError]

\* Variant: the result is returned in the order the tokens were typed
parseSelectionUnsorted(input, availableVideos) ==
    LET acc == ParseParts(FieldsFunc(input), availableVideos,
                          [indices |-> <<>>, seen |-> {}, err |-> NoError])
    IN  IF acc.err # NoError THEN [indices |-> <<>>, err |-> acc.err]
        ELSE IF Len(acc.indices) = 0
             THEN [indices |-> <<>>, err |-> <<"errNoValidSelectionsFound">>]
        ELSE [indices |-> acc.indices, err |-> NoError]

\* Variant: an input without tokens selects every video
parseSelectionEmptyIsAll(input, availableVideos) ==
    LET acc == ParseParts(FieldsFunc(input), availableVideos,
                          [indices |-> <<>>, seen |-> {}, err |-> NoError])
    IN  IF acc.err # NoError THEN [indices |-> <<>>, err |-> acc.err]
        ELSE IF Len(acc.indices) = 0
             THEN [indices |-> [i \in 1..availableVideos |-> i - 1], err |-> NoError]
        ELSE [indices |-> SortInts(acc.indices), err |-> NoError]

parseSelection(input, availableVideos) ==
    LET acc == ParseParts(FieldsFunc(input), availableVideos,
                          [indices |-> <<>>, seen |-> {}, err |-> NoError])
    IN  IF acc.err # NoError THEN [indices |-> <<>>, err |-> acc.err]
        ELSE IF Len(acc.indices) = 0
             THEN [indices |-> <<>>, err |-> <<"errNoValidSelectionsFound">>]
        ELSE [indices |-> SortInts(acc.indices), err |-> NoError]

\* ------------------------------------------------------------------------
\* Inputs of the selection parser
\* ------------------------------------------------------------------------
Numbers == 0..(MaxBound + 1)

NumberToken(n) == Itoa(n)

RangeToken(a, b) == Itoa(a) \o <<"-">> \o Itoa(b)

NumberTokens == {NumberToken(n) : n \in Numbers}

RangeTokens == {RangeToken(a, b) : a \in Numbers, b \in Numbers}

OddTokens ==
    { <<>>, <<"\t">>, <<"a">>, <<"1", "0">>, <<"+", "1">>, <<"1", "\t">>,
      <<"1", "-">>, <<"-", "1">>, <<"1", "-", "a">>, <<"1", "-", "2", "-", "2">> }

Tokens == NumberTokens \cup RangeTokens \cup OddTokens

RECURSIVE Join(_, _)
Join(toks, sep) ==
    IF toks = <<>> THEN <<>>
    ELSE IF Len(toks) = 1 THEN toks[1]
    ELSE toks[1] \o sep \o Join(Tail(toks), sep)

TokenLists == UNION {[1..n -> Tokens] : n \in 0..MaxTokens}

Separators == {<<",">>, <<" ">>}

\* The lines SelectVideos prints before it reads the selection
Listing(vids) ==
    <<[n |-> 0, text |-> <<"Available videos:">>]>>
    \o [i \in 1..Len(vids) |-> [n |-> i, text |-> vids[i].Title]]
    \o <<[n |-> 0, text |-> <<"Select videos">>]>>

\* indices := make([]int, len(videos)); indices[i] = i
AllIndices(vids) == [i \in 1..Len(vids) |-> i - 1]

\* Variant: the list is printed and the selection read before the all flag
\* is looked at
SelectVideosPromptFirst(vids, all, typed) ==
    LET input == TrimSpace(typed)
    IN  IF all \/ Len(vids) = 0 \/ input = <<>>
        THEN [indices |-> AllIndices(vids), err |-> NoError,
              printed |-> Listing(vids), reads |-> 1]
        ELSE LET r == parseSelection(input, Len(vids))
             IN  [indices |-> r.indices, err |-> r.err,
                  printed |-> Listing(vids), reads |-> 1]

\* SelectVideos: typed is the line ui.Input returns; printed is what went to
\* standard output and reads the number of calls of ui.Input
SelectVideos(vids, all, typed) ==
    IF all \/ Len(vids) = 0
    THEN [indices |-> AllIndices(vids), err |-> NoError,
          printed |-> <<>>, reads |-> 0]
    ELSE LET input == TrimSpace(typed)
         IN  IF input = <<>>
             THEN [indices |-> AllIndices(vids), err |-> NoError,
                   printed |-> Listing(vids), reads |-> 1]
             ELSE LET r == parseSelection(input, Len(vids))
                  IN  [indices |-> r.indices, err |-> r.err,
                       printed |-> Listing(vids), reads |-> 1]

\* ------------------------------------------------------------------------
\* The channel batch: channelDownloader
\* ------------------------------------------------------------------------
Title(i) == <<"v">> \o Itoa(i)

\* videos[idx] for a zero-based idx
VideoAt(vids, idx) == vids[idx + 1]

\* What getVariants can return: an error, or the decoded list
VariantResults ==
    { [err |-> <<"errFailedFetchVideoStream">>, variants |-> <<>>],
      [err |-> <<"errHTTPNotOK">>, variants |-> <<>>],
      [err |-> <<"errFailedDecodeVariants">>, variants |-> <<>>],
      [err |-> NoError, variants |-> <<>>],
      [err |-> NoError, variants |-> <<"video/mp4">>] }

\* dir.OverwriteVideoIfExists: TRUE when the download is to be skipped
OverwriteVideoIfExists(exists, cfg, confirmed) ==
    exists /\ ~cfg.Force /\ (cfg.Skip \/ ~confirmed)

\* Where videoDownloader.downloadVideo can stop
VideoStops == {"none", "metadata", "variants", "novariants", "create", "stream"}

\* videoDownloader.downloadVideo(videoID, checkExists): the returned error
\* when the step named by stop fails, or when the existing file is skipped
vdDownloadVideo(stop, checkExists, skip) ==
    IF stop = "metadata" THEN <<"errFailedGetVideoInfo", "errHTTPNotOK">>
    ELSE IF stop = "variants" THEN <<"errFailedGetVideoVariants", "errHTTPNotOK">>
    ELSE IF stop = "novariants" THEN <<"errNoVariantsFound">>
    ELSE IF checkExists /\ skip THEN NoError
    ELSE IF stop = "create" THEN <<"errFailedToCreateVideoFile", "ErrCreateFile">>
    ELSE IF stop = "stream" THEN <<"errFailedToDownloadVideo", "errFailedCopyVideoData">>
    ELSE NoError

\* The requests videoDownloader.downloadVideo issues before it stops
vdRequests(idx, stop, checkExists, skip) ==
    <<[kind |-> "metadata", video |-> idx]>>
    \o (IF stop = "metadata" THEN <<>> ELSE <<[kind |-> "variants", video |-> idx]>>)
    \o (IF stop \in {"metadata", "variants", "novariants", "create"}
           \/ (checkExists /\ skip)
        THEN <<>> ELSE <<[kind |-> "stream", video |-> idx]>>)

\* printResults: the two counts of the summary line and the failure list
printResults(downloadCount, selectedCount, failedTitles) ==
    [successful |-> downloadCount - Len(failedTitles),
     selected |-> selectedCount,
     failed |-> failedTitles]

NoSummary == [successful |-> 0, selected |-> 0, failed |-> <<>>]

Running == <<"running">>

ChanIdle ==
    /\ pc = "idle"
    /\ config = [All |-> FALSE, Skip |-> FALSE, Force |-> FALSE, Output |-> "."]
    /\ callerConfig = config
    /\ usedDirs = <<>>
    /\ videos = <<>>
    /\ selectedIndices = <<>>
    /\ cursor = 0
    /\ toDownload = <<>>
    /\ failed = <<>>
    /\ downloads = <<>>
    /\ fate = <<>>
    /\ requests = <<>>
    /\ summary = NoSummary
    /\ events = <<>>
    /\ ret = Running

ChanInit ==
    /\ pc = "getMetadata"
    /\ callerConfig \in [All : BOOLEAN, Skip : BOOLEAN, Force : BOOLEAN, Output : {"."}]
    /\ config = callerConfig
    /\ usedDirs = <<>>
    /\ videos = <<>>
    /\ selectedIndices = <<>>
    /\ cursor = 0
    /\ toDownload = <<>>
    /\ failed = <<>>
    /\ downloads = <<>>
    /\ fate = <<>>
    /\ requests = <<>>
    /\ summary = NoSummary
    /\ events = <<>>
    /\ ret = Running

Return(err) == pc' = "returned" /\ ret' = err

\* An entry of events: what was done, and for which selected index
Did(op, idx) == [op |-> op, video |-> idx]

\* channelInfo, err := cd.getMetadata(channelID)
GetMetadata ==
    /\ pc = "getMetadata"
    /\ requests' = Append(requests, [kind |-> "channel", video |-> -1])
    /\ \E ok \in BOOLEAN :
          IF ok THEN pc' = "getVideos" /\ ret' = ret
          ELSE Return(<<"errFailedGetChannelInfo", "errFailedDecodeChannelMeta",
                        "errHTTPNotOK">>)
    /\ UNCHANGED <<config, videos, selectedIndices, cursor, toDownload, failed,
                   downloads, fate, summary, events>>
    /\ UNCHANGED <<callerConfig, usedDirs>>
    /\ UNCHANGED <<selVars, dispVars, auxVars>>

\* Variant: the video list is not tested for being empty
AfterGetVideosNoEmptyCheck(n) == "selectVideos"

\* if len(videos) == 0 { ...; return nil }
AfterGetVideos(n) == IF n = 0 THEN "returned" ELSE "selectVideos"

\* videos, err := cd.getVideos(channelID), and the empty-channel return
GetVideos ==
    /\ pc = "getVideos"
    /\ requests' = Append(requests, [kind |-> "channelVideos", video |-> -1])
    /\ \E ok \in BOOLEAN, n \in 0..MaxVideos :
          IF ~ok
          THEN /\ Return(<<"errFailedGetChannelVideos", "errFailedDecodeChannelVideos",
                           "errHTTPNotOK">>)
               /\ videos' = videos
               /\ events' = events
          ELSE /\ videos' = [i \in 1..n |-> [ID |-> i, Title |-> Title(i)]]
               /\ events' = Append(events, Did("videosFetched", -1))
               /\ pc' = AfterGetVideos(n)
               /\ ret' = IF AfterGetVideos(n) = "returned" THEN NoError ELSE ret
    /\ UNCHANGED <<config, selectedIndices, cursor, toDownload, failed,
                   downloads, fate, summary>>
    /\ UNCHANGED <<callerConfig, usedDirs>>
    /\ UNCHANGED <<selVars, dispVars, auxVars>>

\* The lines a user may type at the selection prompt
TypedNumbers == 1..(MaxVideos + 1)

TypedLines ==
    {Join(toks, <<",">>) :
        toks \in UNION {[1..n -> {NumberToken(k) : k \in TypedNumbers}] : n \in 0..2}}
    \cup {RangeToken(a, b) : a, b \in TypedNumbers}
    \cup {<<"x">>, <<" ">>}

\* selectedIndices, err := ui.SelectVideos(videos, cd.config.All)
SelectVideosStep ==
    /\ pc = "selectVideos"
    /\ \E typed \in TypedLines :
          LET r == SelectVideos(videos, config.All, typed)
          IN  /\ events' = IF r.reads > 0
                            THEN Append(events, Did("selectionPrompt", -1))
                            ELSE events
              /\ IF r.err # NoError
                 THEN /\ Return(Wrap("errFailedSelectVideos", r.err))
                      /\ selectedIndices' = selectedIndices
                 ELSE /\ selectedIndices' = r.indices
                      /\ IF Len(r.indices) = 0 THEN Return(NoError)
                         ELSE pc' = "createFolder" /\ ret' = ret
    /\ UNCHANGED <<config, videos, cursor, toDownload, failed, downloads, fate,
                   requests, summary>>
    /\ UNCHANGED <<callerConfig, usedDirs>>
    /\ UNCHANGED <<selVars, dispVars, auxVars>>

\* Variant: the downloader works on the caller's config itself
callerAfterSetOutputShared(caller, folderName) == [caller EXCEPT !.Output = folderName]

\* newChannelDownloader takes config by value: cd.config.Output = folderName
\* writes to the downloader's copy and leaves the caller's value as it was
callerAfterSetOutput(caller, folderName) == caller

\* folderName, err := dir.CreateChannelFolder(...); cd.config.Output = folderName
CreateChannelFolder ==
    /\ pc = "createFolder"
    /\ events' = Append(events, Did("createFolder", -1))
    /\ \E ok \in BOOLEAN :
          IF ok
          THEN /\ config' = [config EXCEPT !.Output = "channel"]
               /\ callerConfig' = callerAfterSetOutput(callerConfig, "channel")
               /\ pc' = "prepare"
               /\ cursor' = 1
               /\ ret' = ret
          ELSE /\ Return(<<"errFailedToCreateChannelFolder", "errFailedCreateFolder">>)
               /\ UNCHANGED <<config, cursor, callerConfig>>
    /\ UNCHANGED <<videos, selectedIndices, toDownload, failed, downloads, fate,
                   requests, summary>>
    /\ UNCHANGED usedDirs
    /\ UNCHANGED <<selVars, dispVars, auxVars>>

\* Where downloadSelectedVideos goes after one pass of the pre-flight loop
AfterPrepare(newCursor, newToDownload, lookupFailed) ==
    IF newCursor <= Len(selectedIndices) THEN "prepare"
    ELSE IF Len(newToDownload) > 0 THEN "process"
    ELSE "print"

\* Variant: a video that is skipped counts as failed
PreflightFailsOrSkips(lookupFailed, skip) == lookupFailed \/ skip

\* prepareDownloads appends to failed when the variants cannot be had
PreflightFails(lookupFailed, skip) == lookupFailed

\* dir.OverwriteVideoIfExists asks the user only about a file that exists
\* when neither Force nor Skip is set
Prompted(exists, cfg) == exists /\ ~cfg.Force /\ ~cfg.Skip

\* One pass of the loop of prepareDownloads.  exists: the destination file
\* is on disk; confirmed: the answer to the overwrite prompt, if asked.
PrepareDownloads ==
    /\ pc = "prepare"
    /\ cursor <= Len(selectedIndices)
    /\ LET idx == selectedIndices[cursor]
           video == VideoAt(videos, idx)
       IN  /\ requests' = Append(requests, [kind |-> "variants", video |-> idx])
           /\ \E r \in VariantResults, exists \in BOOLEAN, confirmed \in BOOLEAN :
                 LET lookupFailed == r.err # NoError \/ Len(r.variants) = 0
                     prompted == ~lookupFailed /\ Prompted(exists, config)
                     skip == OverwriteVideoIfExists(exists, config, confirmed)
                     newToDownload ==
                         IF lookupFailed \/ skip THEN toDownload
                         ELSE Append(toDownload, idx)
                 IN  /\ lookupFailed => ~exists
                     /\ ~prompted => confirmed
                     /\ failed' = IF PreflightFails(lookupFailed, skip)
                                  THEN Append(failed, video.Title)
                                  ELSE failed
                     /\ toDownload' = newToDownload
                     /\ usedDirs' = IF lookupFailed THEN usedDirs
                                     ELSE Append(usedDirs,
                                            [op |-> "filename", video |-> idx,
                                             dir |-> config.Output])
                     /\ events' = events
                                   \o (IF prompted THEN <<Did("overwritePrompt", idx)>>
                                       ELSE <<>>)
                                   \o <<Did("preflight", idx)>>
                     /\ fate' = Append(fate,
                                  [idx |-> idx,
                                   preflight |-> IF r.err # NoError THEN "variantsFailed"
                                                 ELSE IF Len(r.variants) = 0 THEN "noVariants"
                                                 ELSE IF skip THEN "skipped"
                                                 ELSE "passed",
                                   exists |-> exists,
                                   declined |-> prompted /\ ~confirmed,
                                   download |-> "none"])
                     /\ pc' = AfterPrepare(cursor + 1, newToDownload, lookupFailed)
                     /\ cursor' = IF cursor + 1 <= Len(selectedIndices)
                                  THEN cursor + 1 ELSE 1
    /\ UNCHANGED <<config, videos, selectedIndices, downloads, summary, ret,
                   callerConfig>>
    /\ UNCHANGED <<selVars, dispVars, auxVars>>

\* Variant: the download loop stops at the first failed download
AfterProcessStopOnFailure(newCursor, err) ==
    IF newCursor <= Len(toDownload) /\ err = NoError THEN "process" ELSE "print"

\* Where downloadSelectedVideos goes after one pass of the download loop
AfterProcess(newCursor, err) ==
    IF newCursor <= Len(toDownload) THEN "process" ELSE "print"

\* Variant: the download pass asks downloadVideo to check for the file
CheckExistsInBatchTrue == TRUE

\* The checkExists argument processDownloads passes to downloadVideo
CheckExistsInBatch == FALSE

SetDownload(f, idx, outcome) ==
    [i \in 1..Len(f) |-> IF f[i].idx = idx THEN [f[i] EXCEPT !.download = outcome]
                         ELSE f[i]]

\* One pass of the loop of processDownloads
ProcessDownloads ==
    /\ pc = "process"
    /\ cursor <= Len(toDownload)
    /\ LET idx == toDownload[cursor]
           video == VideoAt(videos, idx)
       IN  \E stop \in VideoStops,
              exists \in (IF CheckExistsInBatch THEN BOOLEAN ELSE {FALSE}) :
              LET err == vdDownloadVideo(stop, FALSE, FALSE)
                  prompted == /\ CheckExistsInBatch
                              /\ stop \notin {"metadata", "variants", "novariants"}
                              /\ Prompted(exists, config)
              IN  /\ downloads' = Append(downloads, idx)
                  /\ usedDirs' = Append(usedDirs,
                                   [op |-> "download", video |-> idx,
                                    dir |-> config.Output])
                  /\ events' = events
                                \o <<Did("download", idx)>>
                                \o (IF prompted THEN <<Did("overwritePrompt", idx)>>
                                    ELSE <<>>)
                  /\ requests' = requests \o vdRequests(idx, stop, FALSE, FALSE)
                  /\ failed' = IF err # NoError THEN Append(failed, video.Title)
                               ELSE failed
                  /\ fate' = SetDownload(fate, idx,
                                 IF err # NoError THEN "failed" ELSE "succeeded")
                  /\ pc' = AfterProcess(cursor + 1, err)
                  /\ cursor' = cursor + 1
    /\ UNCHANGED <<config, videos, selectedIndices, toDownload, summary, ret,
                   callerConfig>>
    /\ UNCHANGED <<selVars, dispVars, auxVars>>

\* cd.printResults(len(toDownload), len(selectedIndices), failed); return nil
PrintResults ==
    /\ pc = "print"
    /\ summary' = printResults(Len(toDownload), Len(selectedIndices), failed)
    /\ events' = Append(events, Did("summary", -1))
    /\ Return(NoError)
    /\ UNCHANGED <<config, videos, selectedIndices, cursor, toDownload, failed,
                   downloads, fate, requests>>
    /\ UNCHANGED <<callerConfig, usedDirs>>
    /\ UNCHANGED <<selVars, dispVars, auxVars>>

\* ------------------------------------------------------------------------
\* The identifier classifier and the dispatcher: Download
\* ------------------------------------------------------------------------
baseURL ==
    <<"h", "t", "t", "p", "s", ":", "/", "/", "t", "u", "b", "e", ".",
      "s", "w", "i", "t", "c", "h", ".", "c", "h", "/">>

videoPrefix == <<"v", "i", "d", "e", "o", "s", "/">>

channelPrefix == <<"c", "h", "a", "n", "n", "e", "l", "s", "/">>

\* Variant: the input is classified as typed, without strings.TrimSpace
extractIDAndTypeUntrimmed(input) ==
    IF ~HasPrefix(input, baseURL)
    THEN [id |-> input, type |-> "unknownType", err |-> NoError]
    ELSE LET prefixAndID == TrimPrefix(input, baseURL)
         IN  IF HasPrefix(prefixAndID, videoPrefix)
             THEN [id |-> TrimPrefix(prefixAndID, videoPrefix),
                   type |-> "videoType", err |-> NoError]
             ELSE IF HasPrefix(prefixAndID, channelPrefix)
             THEN [id |-> TrimPrefix(prefixAndID, channelPrefix),
                   type |-> "channelType", err |-> NoError]
             ELSE [id |-> prefixAndID, type |-> "unknownType",
                   err |-> <<"errInvalidURL">>]

extractIDAndType(input) ==
    LET trimmed == TrimSpace(input)
    IN  IF ~HasPrefix(trimmed, baseURL)
        THEN [id |-> trimmed, type |-> "unknownType", err |-> NoError]
        ELSE LET prefixAndID == TrimPrefix(trimmed, baseURL)
             IN  IF HasPrefix(prefixAndID, videoPrefix)
                 THEN [id |-> TrimPrefix(prefixAndID, videoPrefix),
                       type |-> "videoType", err |-> NoError]
                 ELSE IF HasPrefix(prefixAndID, channelPrefix)
                 THEN [id |-> TrimPrefix(prefixAndID, channelPrefix),
                       type |-> "channelType", err |-> NoError]
                 ELSE [id |-> prefixAndID, type |-> "unknownType",
                       err |-> <<"errInvalidURL">>]

\* Where the package-level downloadVideo can stop
DownloadVideoStops ==
    {"none", "metadata", "variants", "novariants", "aborted", "create", "stream"}

\* downloadVideo(id, token, 1, 1, config): the returned error
downloadVideo(stop) ==
    IF stop = "metadata" THEN <<"errFailedGetVideoInfo", "errHTTPNotOK">>
    ELSE IF stop = "variants" THEN <<"errFailedGetVideoVariants", "errHTTPNotOK">>
    ELSE IF stop = "novariants"
         THEN <<"errFailedGetVideoVariants", "errNoVariantsFound">>
    ELSE IF stop = "aborted"
         THEN <<"errFailedToCreateVideoFile", "ErrFileCreationAborted">>
    ELSE IF stop = "create" THEN <<"errFailedToCreateVideoFile", "ErrCreateFile">>
    ELSE IF stop = "stream"
         THEN <<"errFailedToDownloadVideo", "errFailedCopyVideoData">>
    ELSE NoError

\* The requests downloadVideo issues before it stops
downloadVideoRequests(stop) ==
    <<"videoMetadata">>
    \o (IF stop = "metadata" THEN <<>> ELSE <<"videoVariants">>)
    \o (IF stop \in {"none", "stream"} THEN <<"videoStream">> ELSE <<>>)

\* What downloadChannel can return to Download
ChannelResults ==
    { NoError,
      <<"errFailedGetChannelInfo", "errFailedDecodeChannelMeta", "errHTTPNotOK">>,
      <<"errFailedGetChannelVideos", "errFailedDecodeChannelVideos", "errHTTPNotOK">>,
      <<"errFailedSelectVideos", "errInvalidNumber">>,
      <<"errFailedToCreateChannelFolder", "errFailedCreateFolder">> }

\* The requests downloadChannel issues before it returns err
downloadChannelRequests(err) ==
    IF ErrorsIs(err, "errFailedGetChannelInfo") THEN <<"channel">>
    ELSE <<"channel", "channelVideos">>

\* Variant: a classification error does not stop Download
AfterExtractIgnoringError(r) == "getToken"

\* if err != nil { return ... errFailedToExtractType } after extractIDAndType
AfterExtract(r) == IF r.err # NoError THEN "returned" ELSE "getToken"

\* Variant: every failed video attempt falls back to the channel path
AfterVideoAlwaysFallback(type, err) ==
    IF err # NoError THEN "downloadChannel" ELSE "returned"

\* The switch of Download after the downloadVideo call: case videoType
\* returns, case unknownType returns on success and falls through otherwise
AfterVideo(type, err) ==
    IF type = "videoType" THEN "returned"
    ELSE IF err = NoError THEN "returned"
    ELSE "downloadChannel"

\* The switch of Download on downloadType, entered with the token
SwitchOn(type) ==
    IF type = "videoType" \/ type = "unknownType" THEN "downloadVideo"
    ELSE IF type = "channelType" THEN "downloadChannel"
    ELSE "returned"

\* The media references a user may pass
Pads == {<<>>, <<" ">>, <<"\t", " ">>}

TailChars == {"7", "/", " "}

Tails == UNION {[1..n -> TailChars] : n \in 0..MaxTail}

Forms ==
    {"bare", "video", "channel", "otherPath", "baseOnly", "videoNoSlash",
     "noScheme", "hostNoSlash"}

Body(form, tail) ==
    IF form = "bare" THEN tail
    ELSE IF form = "video" THEN baseURL \o videoPrefix \o tail
    ELSE IF form = "channel" THEN baseURL \o channelPrefix \o tail
    ELSE IF form = "otherPath" THEN baseURL \o <<"x", "/">> \o tail
    ELSE IF form = "baseOnly" THEN baseURL \o tail
    ELSE IF form = "videoNoSlash"
         THEN baseURL \o SubSeq(videoPrefix, 1, Len(videoPrefix) - 1) \o tail
    ELSE IF form = "noScheme" THEN SubSeq(baseURL, 9, Len(baseURL)) \o videoPrefix \o tail
    ELSE SubSeq(baseURL, 1, Len(baseURL) - 1) \o tail

MediaParts == [lpad : Pads, form : Forms, tail : Tails, rpad : Pads]

MediaOf(parts) == parts.lpad \o Body(parts.form, parts.tail) \o parts.rpad

DispIdle ==
    /\ mediaParts = [lpad |-> <<>>, form |-> "bare", tail |-> <<>>, rpad |-> <<>>]
    /\ media = <<>>
    /\ dPc = "idle"
    /\ dId = <<>>
    /\ dType = "unknownType"
    /\ dErr = NoError
    /\ dCalls = <<>>
    /\ dRequests = <<>>
    /\ dVideoErr = NoError
    /\ dRet = Running

DispInit ==
    /\ mediaParts \in MediaParts
    /\ media = MediaOf(mediaParts)
    /\ dPc = "extract"
    /\ dId = <<>>
    /\ dType = "unknownType"
    /\ dErr = NoError
    /\ dCalls = <<>>
    /\ dRequests = <<>>
    /\ dVideoErr = NoError
    /\ dRet = Running

\* id, downloadType, err := extractIDAndType(config.Media)
Extract ==
    /\ dPc = "extract"
    /\ LET r == extractIDAndType(media)
       IN  /\ dId' = r.id
           /\ dType' = r.type
           /\ dErr' = r.err
           /\ dPc' = AfterExtract(r)
           /\ dRet' = IF AfterExtract(r) = "returned"
                      THEN Wrap("errFailedToExtractType", r.err) ELSE dRet
    /\ UNCHANGED <<mediaParts, media, dCalls, dRequests, dVideoErr>>
    /\ UNCHANGED <<selVars, chanVars, auxVars>>

\* token, err := token.Get(), then the switch on downloadType
GetToken ==
    /\ dPc = "getToken"
    /\ dCalls' = Append(dCalls, "token.Get")
    /\ \E ok \in BOOLEAN :
          IF ok THEN dPc' = SwitchOn(dType) /\ dRet' = dRet
          ELSE /\ dPc' = "returned"
               /\ dRet' = <<"errFailedToGetToken", "ErrTokenNotFound">>
    /\ UNCHANGED <<mediaParts, media, dId, dType, dErr, dRequests, dVideoErr>>
    /\ UNCHANGED <<selVars, chanVars, auxVars>>

\* err = downloadVideo(id, token, 1, 1, config) in case videoType and
\* case unknownType
DownloadVideoCall ==
    /\ dPc = "downloadVideo"
    /\ dCalls' = Append(dCalls, "downloadVideo")
    /\ \E stop \in DownloadVideoStops :
          LET err == downloadVideo(stop)
          IN  /\ dVideoErr' = err
              /\ dRequests' = dRequests \o downloadVideoRequests(stop)
              /\ dPc' = AfterVideo(dType, err)
              /\ dRet' = IF AfterVideo(dType, err) # "returned" THEN dRet
                         ELSE IF err # NoError
                              THEN Wrap("errFailedToDownloadVideo", err)
                         ELSE NoError
    /\ UNCHANGED <<mediaParts, media, dId, dType, dErr>>
    /\ UNCHANGED <<selVars, chanVars, auxVars>>

\* Variant: the error of the failed video attempt is kept in the chain
channelFailureWithVideoError(err, videoErr) ==
    Wrap("errFailedToDownloadChannel", err) \o videoErr

\* fmt.Errorf("%w: %w", errFailedToDownloadChannel, err): err was assigned
\* anew by the downloadChannel call, what downloadVideo returned is gone
channelFailure(err, videoErr) == Wrap("errFailedToDownloadChannel", err)

\* err = downloadChannel(id, token, config) in case channelType
DownloadChannelCall ==
    /\ dPc = "downloadChannel"
    /\ dCalls' = Append(dCalls, "downloadChannel")
    /\ \E err \in ChannelResults :
          /\ dRequests' = dRequests \o downloadChannelRequests(err)
          /\ dRet' = IF err # NoError THEN channelFailure(err, dVideoErr)
                     ELSE NoError
    /\ dPc' = "returned"
    /\ UNCHANGED <<mediaParts, media, dId, dType, dErr, dVideoErr>>
    /\ UNCHANGED <<selVars, chanVars, auxVars>>

\* ------------------------------------------------------------------------
\* The selection parser as a state machine
\* ------------------------------------------------------------------------
SelInit ==
    /\ selTokens \in TokenLists
    /\ \E sep \in Separators : selInput = Join(selTokens, sep)
    /\ selBound \in 0..MaxBound
    /\ selPc = "ready"
    /\ selIndices = <<>>
    /\ selErr = NoError

ParseSelectionCall ==
    /\ selPc = "ready"
    /\ LET r == parseSelection(selInput, selBound)
       IN  /\ selIndices' = r.indices
           /\ selErr' = r.err
    /\ selPc' = "done"
    /\ UNCHANGED <<selTokens, selInput, selBound>>
    /\ UNCHANGED <<chanVars, dispVars, auxVars>>

\* ------------------------------------------------------------------------
\* ui.SelectVideos as a state machine
\* ------------------------------------------------------------------------
\* The lines that can wait on standard input: one token, padded
SvLines == {lpad \o tok \o rpad : lpad \in Pads, tok \in Tokens, rpad \in Pads}

NoSelection == [indices |-> <<>>, err |-> NoError, printed |-> <<>>, reads |-> 0]

SvIdle ==
    /\ svVideos = <<>>
    /\ svAll = FALSE
    /\ svTyped = <<>>
    /\ svPc = "idle"
    /\ svOut = NoSelection

SvInit ==
    /\ \E n \in 0..MaxBound : svVideos = [i \in 1..n |-> [ID |-> i, Title |-> Title(i)]]
    /\ svAll \in BOOLEAN
    /\ svTyped \in SvLines
    /\ svPc = "ready"
    /\ svOut = NoSelection

SelectVideosCall ==
    /\ svPc = "ready"
    /\ svOut' = SelectVideos(svVideos, svAll, svTyped)
    /\ svPc' = "done"
    /\ UNCHANGED <<svVideos, svAll, svTyped>>
    /\ UNCHANGED <<selVars, chanVars, dispVars>>
    /\ AuxUnchangedExcept("sv")

\* ------------------------------------------------------------------------
\* The progress renderer: ShowProgress
\* ------------------------------------------------------------------------
MaxWritten == 3
MaxTotal == 3

percentageMultiplier == 100
progressBarLength == 50
terminalWidthPadding == 30
minBarLength == 10

Min(a, b) == IF a < b THEN a ELSE b

Max(a, b) == IF a > b THEN a ELSE b

\* int(x) of a finite quotient a / b: truncation toward zero
TruncDiv(a, b) ==
    LET q == (IF a < 0 THEN -a ELSE a) \div (IF b < 0 THEN -b ELSE b)
    IN  IF (a < 0) = (b < 0) THEN q ELSE -q

\* The extreme values of int the model can hold
MinInt == -2147483647
MaxInt == 2147483647

\* int(x) of a NaN or an infinity is implementation-dependent: the most
\* negative int where the conversion instruction reports an invalid operand,
\* 0 or the most positive int where it saturates
ConvOutcomes == {MinInt, 0, MaxInt}

\* float64(written) / float64(total) * percentageMultiplier, as an exact
\* quotient while it is finite; 0/0 is NaN and w/0 for w > 0 is +Inf
Percent(written, total) ==
    IF total = 0
    THEN [finite |-> FALSE, num |-> 0, den |-> 1]
    ELSE [finite |-> TRUE, num |-> written * percentageMultiplier, den |-> total]

calculateBarLength(termWidth) ==
    Max(Min(progressBarLength, termWidth - terminalWidthPadding), minBarLength)

\* renderProgressBar: strings.Repeat panics on a negative count, so the bar
\* exists only when 0 <= filled and filled <= barLength
renderProgressBar(percent, barLength, conv) ==
    LET filled == IF percent.finite
                  THEN TruncDiv(barLength * percent.num, percent.den * percentageMultiplier)
                  ELSE conv
    IN  IF filled < 0 \/ filled > barLength
        THEN [panicked |-> TRUE, filled |-> filled, barLength |-> barLength]
        ELSE [panicked |-> FALSE, filled |-> filled, barLength |-> barLength]

\* ShowProgress: the bar it prints.  The speed, the sizes and the two
\* truncations that follow renderProgressBar are total and only shape the text.
ShowProgress(written, total, termWidth, conv) ==
    renderProgressBar(Percent(written, total), calculateBarLength(termWidth), conv)

TermWidths == {0, 40, 45, 80}

NoBar == [panicked |-> FALSE, filled |-> 0, barLength |-> 0]

PgIdle ==
    /\ pgWritten = 0
    /\ pgTotal = 0
    /\ pgTermWidth = 0
    /\ pgPc = "idle"
    /\ pgOut = NoBar

PgInit ==
    /\ pgWritten \in 0..MaxWritten
    /\ pgTotal \in -1..MaxTotal
    /\ pgTermWidth \in TermWidths
    /\ pgPc = "ready"
    /\ pgOut = NoBar

ShowProgressCall ==
    /\ pgPc = "ready"
    /\ \E conv \in ConvOutcomes :
          pgOut' = ShowProgress(pgWritten, pgTotal, pgTermWidth, conv)
    /\ pgPc' = "done"
    /\ UNCHANGED <<pgWritten, pgTotal, pgTermWidth>>
    /\ UNCHANGED <<selVars, chanVars, dispVars>>
    /\ AuxUnchangedExcept("pg")

\* ------------------------------------------------------------------------
\* The stream copy: copyWithProgress
\* ------------------------------------------------------------------------
MaxReads == 3

\* What one src.Read can deliver
Chunks == {<<>>, <<"a">>, <<"b", "c">>}

\* A source: every Read but the last returns a nil error, the last one
\* io.EOF ("EOF") or another error ("fail"), each with or without bytes
Sources ==
    UNION {{src \in [1..n -> [data : Chunks, err : {"nil", "EOF", "fail"}]] :
               /\ \A i \in 1..(n - 1) : src[i].err = "nil"
               /\ src[n].err # "nil"} : n \in 1..MaxReads}

RECURSIVE Delivered(_)
\* The bytes a source delivers, in order
Delivered(src) ==
    IF src = <<>> THEN <<>> ELSE Head(src).data \o Delivered(Tail(src))

Event(op, n) == [op |-> op, n |-> n]

\* Variant: a failed write is not looked at and the loop goes on
copyIterationIgnoringWriteError(rd, written, total, termWidth, writeOk, kept, conv) ==
    LET n == Len(rd.data)
        bar == ShowProgress(written + n, total, termWidth, conv)
        log == <<Event("read", n)>>
               \o (IF n = 0 THEN <<>>
                   ELSE <<Event(IF writeOk THEN "write" ELSE "writeFailed", n),
                          Event("report", written + n)>>)
        add == IF writeOk THEN rd.data ELSE SubSeq(rd.data, 1, kept)
    IN  [pc |-> IF n > 0 /\ bar.panicked THEN "panicked"
                ELSE IF rd.err = "EOF" THEN "final"
                ELSE IF rd.err # "nil" THEN "returned"
                ELSE "loop",
         err |-> IF (n = 0 \/ ~bar.panicked) /\ rd.err = "fail"
                 THEN <<"errFailedReadData", "readError">> ELSE NoError,
         add |-> add, written |-> written + n, log |-> log]

\* One pass of the loop of copyWithProgress.  rd is what src.Read returns,
\* writeOk whether dst.Write succeeds, kept how many bytes a failed write
\* left in dst, conv the outcome of an implementation-dependent conversion.
copyIteration(rd, written, total, termWidth, writeOk, kept, conv) ==
    LET n == Len(rd.data)
        bar == ShowProgress(written + n, total, termWidth, conv)
    IN  IF n > 0 /\ ~writeOk
        THEN [pc |-> "returned",
              err |-> <<"errFailedWriteToFile", "writeError">>,
              add |-> SubSeq(rd.data, 1, kept), written |-> written,
              log |-> <<Event("read", n), Event("writeFailed", n)>>]
        ELSE IF n > 0 /\ bar.panicked
        THEN [pc |-> "panicked", err |-> NoError,
              add |-> rd.data, written |-> written + n,
              log |-> <<Event("read", n), Event("write", n),
                        Event("report", written + n)>>]
        ELSE [pc |-> IF rd.err = "EOF" THEN "final"
                     ELSE IF rd.err # "nil" THEN "returned"
                     ELSE "loop",
              err |-> IF rd.err = "fail"
                      THEN <<"errFailedReadData", "readError">> ELSE NoError,
              add |-> rd.data, written |-> written + n,
              log |-> <<Event("read", n)>>
                      \o (IF n = 0 THEN <<>>
                          ELSE <<Event("write", n), Event("report", written + n)>>)]

CpIdle ==
    /\ cpSource = <<>>
    /\ cpTotal = 0
    /\ cpTermWidth = 0
    /\ cpPc = "idle"
    /\ cpPos = 0
    /\ cpSink = <<>>
    /\ cpWritten = 0
    /\ cpLog = <<>>
    /\ cpErr = NoError

\* total is resp.ContentLength: unknown (-1), or a length the body may match,
\* or fall short of
CpInit ==
    /\ cpSource \in Sources
    /\ cpTotal \in {-1, 0, Len(Delivered(cpSource)), Len(Delivered(cpSource)) + 1}
    /\ cpTermWidth \in TermWidths
    /\ cpPc = "loop"
    /\ cpPos = 1
    /\ cpSink = <<>>
    /\ cpWritten = 0
    /\ cpLog = <<>>
    /\ cpErr = NoError

\* n, err := src.Read(buffer) and the rest of the loop body
CopyIteration ==
    /\ cpPc = "loop"
    /\ \E writeOk \in BOOLEAN, kept \in 0..Len(cpSource[cpPos].data),
          conv \in ConvOutcomes :
          LET r == copyIteration(cpSource[cpPos], cpWritten, cpTotal, cpTermWidth,
                                 writeOk, kept, conv)
          IN  /\ cpPc' = r.pc
              /\ cpErr' = r.err
              /\ cpSink' = cpSink \o r.add
              /\ cpWritten' = r.written
              /\ cpLog' = cpLog \o r.log
    /\ cpPos' = cpPos + 1
    /\ UNCHANGED <<cpSource, cpTotal, cpTermWidth>>
    /\ UNCHANGED <<selVars, chanVars, dispVars>>
    /\ AuxUnchangedExcept("cp")

\* Variant: nothing is reported after the loop
finalReportOmitted(written) == <<>>

\* The call of ui.ShowProgress after the loop, as an entry of the log
finalReport(written) == <<Event("report", written)>>

\* ui.ShowProgress(written, total, ...) after the loop; return nil
CopyFinal ==
    /\ cpPc = "final"
    /\ \E conv \in ConvOutcomes :
          cpPc' = IF ShowProgress(cpWritten, cpTotal, cpTermWidth, conv).panicked
                  THEN "panicked" ELSE "returned"
    /\ cpLog' = cpLog \o finalReport(cpWritten)
    /\ UNCHANGED <<cpSource, cpTotal, cpTermWidth, cpPos, cpSink, cpWritten, cpErr>>
    /\ UNCHANGED <<selVars, chanVars, dispVars>>
    /\ AuxUnchangedExcept("cp")

\* ------------------------------------------------------------------------
\* One video download: downloadVideo and videoDownloader.downloadVideo
\* ------------------------------------------------------------------------
MaxVariants == 2

\* What the server can answer to the video_variants request: no answer, a
\* status other than 200, a body that does not decode, or a list
VariantResponses ==
    { [transport |-> FALSE, status |-> 0, decodes |-> FALSE, list |-> <<>>],
      [transport |-> TRUE, status |-> 404, decodes |-> FALSE, list |-> <<>>],
      [transport |-> TRUE, status |-> 500, decodes |-> FALSE, list |-> <<>>],
      [transport |-> TRUE, status |-> 200, decodes |-> FALSE, list |-> <<>>] }
    \cup { [transport |-> TRUE, status |-> 200, decodes |-> TRUE,
            list |-> [i \in 1..n |-> "video/mp4"]] : n \in 0..MaxVariants }

\* What comes before the decoded list, the same in both variant fetches
FetchError(resp) ==
    IF ~resp.transport THEN <<"errFailedFetchVideoStream", "transportError">>
    ELSE IF resp.status # 200 THEN <<"errHTTPNotOK">>
    ELSE IF ~resp.decodes THEN <<"errFailedDecodeVariants", "jsonError">>
    ELSE NoError

\* getVideoVariants(videoID, token)
getVideoVariants(resp) ==
    IF FetchError(resp) # NoError THEN [variants |-> <<>>, err |-> FetchError(resp)]
    ELSE IF Len(resp.list) = 0 THEN [variants |-> <<>>, err |-> <<"errNoVariantsFound">>]
    ELSE [variants |-> resp.list, err |-> NoError]

\* videoDownloader.getVariants(videoID)
getVariants(resp) ==
    IF FetchError(resp) # NoError THEN [variants |-> <<>>, err |-> FetchError(resp)]
    ELSE [variants |-> resp.list, err |-> NoError]

\* Variant: skip-existing is honoured under Force as well
CreateVideoFileSkipOverForce(exists, cfg, answer, createOk) ==
    IF exists /\ (cfg.Skip \/ (~cfg.Force /\ ~answer))
    THEN [err |-> <<"ErrFileCreationAborted">>, created |-> FALSE, aborted |-> TRUE]
    ELSE IF ~createOk
    THEN [err |-> <<"ErrCreateFile", "osError">>, created |-> FALSE, aborted |-> FALSE]
    ELSE [err |-> NoError, created |-> TRUE, aborted |-> FALSE]

\* dir.CreateVideoFile(title, mediaType, episodeNr, config): the error,
\* whether os.Create was reached, whether the existing file was kept
CreateVideoFile(exists, cfg, answer, createOk) ==
    IF ~cfg.Force /\ exists /\ (cfg.Skip \/ ~answer)
    THEN [err |-> <<"ErrFileCreationAborted">>, created |-> FALSE, aborted |-> TRUE]
    ELSE IF ~createOk
    THEN [err |-> <<"ErrCreateFile", "osError">>, created |-> FALSE, aborted |-> FALSE]
    ELSE [err |-> NoError, created |-> TRUE, aborted |-> FALSE]

\* dir.CreateVideoFile(filename): creates or truncates, whatever is there
CreateVideoFileAt(createOk) ==
    IF ~createOk
    THEN [err |-> <<"ErrCreateFile", "osError">>, created |-> FALSE, aborted |-> FALSE]
    ELSE [err |-> NoError, created |-> TRUE, aborted |-> FALSE]

\* downloadProcess: the error for each way the stream can end
downloadProcess(stream) ==
    IF stream = "transport" THEN <<"errFailedFetchVideoStream", "transportError">>
    ELSE IF stream = "status" THEN <<"errHTTPNotOK">>
    ELSE IF stream = "copy" THEN <<"errFailedCopyVideoData", "errFailedReadData">>
    ELSE NoError

NoVariants == [variants |-> <<>>, err |-> NoError]

VEnvs ==
    [meta : BOOLEAN, variants : VariantResponses, exists : BOOLEAN,
     answer : BOOLEAN, createOk : BOOLEAN,
     stream : {"ok", "transport", "status", "copy"}]

VIdle ==
    /\ vImpl = "none"
    /\ vCheckExists = FALSE
    /\ vConfig = [Force |-> FALSE, Skip |-> FALSE]
    /\ vEnv = [meta |-> FALSE,
               variants |-> [transport |-> FALSE, status |-> 0, decodes |-> FALSE,
                             list |-> <<>>],
               exists |-> FALSE, answer |-> FALSE, createOk |-> FALSE,
               stream |-> "ok"]
    /\ vDisk = "none"
    /\ vPc = "idle"
    /\ vFetched = NoVariants
    /\ vOpen = FALSE
    /\ vLog = <<>>
    /\ vRet = Running
    /\ vPolicy = "none"

VInit ==
    /\ vImpl \in {"function", "method"}
    /\ vCheckExists \in BOOLEAN
    /\ vImpl = "function" => ~vCheckExists
    /\ vConfig \in [Force : BOOLEAN, Skip : BOOLEAN]
    /\ vEnv \in VEnvs
    /\ vDisk = IF vEnv.exists THEN "old" ELSE "none"
    /\ vPc = "metadata"
    /\ vFetched = NoVariants
    /\ vOpen = FALSE
    /\ vLog = <<>>
    /\ vRet = Running
    /\ vPolicy = "none"

VReturn(err) == vPc' = "returned" /\ vRet' = err

\* videoData, err := getVideoMetadata(videoID, token)
VideoGetMetadata ==
    /\ vPc = "metadata"
    /\ vLog' = Append(vLog, "metadata")
    /\ IF vEnv.meta THEN vPc' = "variants" /\ vRet' = vRet
       ELSE VReturn(<<"errFailedGetVideoInfo", "errHTTPNotOK">>)
    /\ UNCHANGED <<vImpl, vCheckExists, vConfig, vEnv, vDisk, vFetched, vOpen, vPolicy>>
    /\ UNCHANGED <<selVars, chanVars, dispVars>>
    /\ AuxUnchangedExcept("v")

\* The variant fetch and what downloadVideo does with its result
VideoGetVariants ==
    /\ vPc = "variants"
    /\ vLog' = Append(vLog, "variants")
    /\ LET r == IF vImpl = "function" THEN getVideoVariants(vEnv.variants)
                ELSE getVariants(vEnv.variants)
       IN  /\ vFetched' = r
           /\ IF r.err # NoError
              THEN VReturn(Wrap("errFailedGetVideoVariants", r.err))
              ELSE IF vImpl = "method" /\ Len(r.variants) = 0
              THEN VReturn(<<"errNoVariantsFound">>)
              ELSE /\ vPc' = IF vImpl = "method" THEN "checkExisting" ELSE "createFile"
                   /\ vRet' = vRet
    /\ UNCHANGED <<vImpl, vCheckExists, vConfig, vEnv, vDisk, vOpen, vPolicy>>
    /\ UNCHANGED <<selVars, chanVars, dispVars>>
    /\ AuxUnchangedExcept("v")

\* if checkExists && dir.OverwriteVideoIfExists(filename, vd.config) { return nil }
VideoCheckExisting ==
    /\ vPc = "checkExisting"
    /\ vLog' = IF ~vCheckExists THEN vLog
               ELSE IF Prompted(vEnv.exists, vConfig)
               THEN vLog \o <<"stat", "prompt">>
               ELSE Append(vLog, "stat")
    /\ vPolicy' = IF ~vCheckExists THEN vPolicy
                  ELSE IF OverwriteVideoIfExists(vEnv.exists, vConfig, vEnv.answer)
                  THEN "skip" ELSE "proceed"
    /\ IF vCheckExists /\ OverwriteVideoIfExists(vEnv.exists, vConfig, vEnv.answer)
       THEN VReturn(NoError)
       ELSE vPc' = "createFile" /\ vRet' = vRet
    /\ UNCHANGED <<vImpl, vCheckExists, vConfig, vEnv, vDisk, vFetched, vOpen>>
    /\ UNCHANGED <<selVars, chanVars, dispVars>>
    /\ AuxUnchangedExcept("v")

\* file, err := CreateVideoFile(...)
VideoCreateFile ==
    /\ vPc = "createFile"
    /\ LET r == IF vImpl = "function"
                THEN CreateVideoFile(vEnv.exists, vConfig, vEnv.answer, vEnv.createOk)
                ELSE CreateVideoFileAt(vEnv.createOk)
           asked == vImpl = "function" /\ Prompted(vEnv.exists, vConfig)
       IN  /\ vLog' = vLog
                      \o (IF vImpl = "function" /\ ~vConfig.Force
                          THEN <<"stat">> ELSE <<>>)
                      \o (IF asked THEN <<"prompt">> ELSE <<>>)
                      \o (IF r.created THEN <<"create">> ELSE <<>>)
           /\ vDisk' = IF r.created THEN "empty" ELSE vDisk
           /\ vOpen' = r.created
           /\ vPolicy' = IF vImpl # "function" THEN vPolicy
                         ELSE IF r.aborted THEN "skip" ELSE "proceed"
           /\ IF r.err # NoError
              THEN VReturn(Wrap("errFailedToCreateVideoFile", r.err))
              ELSE vPc' = "stream" /\ vRet' = vRet
    /\ UNCHANGED <<vImpl, vCheckExists, vConfig, vEnv, vFetched>>
    /\ UNCHANGED <<selVars, chanVars, dispVars>>
    /\ AuxUnchangedExcept("v")

\* err = downloadProcess(variants[0].Path, ...); return
VideoDownloadProcess ==
    /\ vPc = "stream"
    /\ vLog' = Append(vLog, "stream")
    /\ vDisk' = IF vEnv.stream = "ok" THEN "new"
                ELSE IF vEnv.stream = "copy" THEN "partial"
                ELSE vDisk
    /\ LET err == downloadProcess(vEnv.stream)
       IN  VReturn(IF err # NoError THEN Wrap("errFailedToDownloadVideo", err)
                   ELSE NoError)
    /\ UNCHANGED <<vImpl, vCheckExists, vConfig, vEnv, vFetched, vOpen, vPolicy>>
    /\ UNCHANGED <<selVars, chanVars, dispVars>>
    /\ AuxUnchangedExcept("v")

\* ------------------------------------------------------------------------
\* The download command: downloadCmd under Execute
\* ------------------------------------------------------------------------
MaxArgs == 2

\* Execute: os.Exit(1) when rootCmd.Execute returns an error, else main
\* returns and the process exits with 0
Execute(executeFailed) == IF executeFailed THEN 1 ELSE 0

\* downloadCmd.Run: what it prints for the error Download returned.  Run has
\* no result, so nothing of err reaches rootCmd.Execute.
Run(err) == IF err # NoError THEN <<"Error: ">> \o err ELSE <<>>

CmdIdle ==
    /\ cmdArgs = 0
    /\ cmdPc = "idle"
    /\ cmdPrinted = <<>>
    /\ exitCode = -1

CmdInit ==
    /\ cmdArgs \in 0..MaxArgs
    /\ cmdPc = "execute"
    /\ cmdPrinted = <<>>
    /\ exitCode = -1

\* Args: cobra.ExactArgs(1) fails: rootCmd.Execute returns its error
CmdRejectArgs ==
    /\ cmdPc = "execute"
    /\ cmdArgs # 1
    /\ exitCode' = Execute(TRUE)
    /\ cmdPc' = "exited"
    /\ UNCHANGED <<cmdArgs, cmdPrinted>>
    /\ UNCHANGED <<selVars, chanVars, dispVars>>
    /\ AuxUnchangedExcept("cmd")

\* err = download.Download(...) has returned: Run prints and returns,
\* rootCmd.Execute returns nil
CmdRunReturns ==
    /\ cmdPc = "execute"
    /\ cmdArgs = 1
    /\ dPc = "returned"
    /\ cmdPrinted' = Run(dRet)
    /\ exitCode' = Execute(FALSE)
    /\ cmdPc' = "exited"
    /\ UNCHANGED cmdArgs
    /\ UNCHANGED <<selVars, chanVars, dispVars>>
    /\ AuxUnchangedExcept("cmd")

\* ------------------------------------------------------------------------
\* The filename policy: createFilename and sanitizeFilename
\* ------------------------------------------------------------------------
MaxTitle == 3

minMediaTypeParts == 2

\* Variant: one replacement is itself a key of the map
replacementsChained ==
    { <<"/", <<"-">>>>, <<"\\", <<"-">>>>, <<":", <<"-">>>>, <<"|", <<"/">>>>,
      <<"*", <<>>>>, <<"?", <<>>>>, <<"\"", <<>>>>, <<"<", <<>>>>, <<">", <<>>>> }

\* The replacements map of sanitizeFilename: invalid and replacement
replacements ==
    { <<"/", <<"-">>>>, <<"\\", <<"-">>>>, <<":", <<"-">>>>, <<"|", <<"-">>>>,
      <<"*", <<>>>>, <<"?", <<>>>>, <<"\"", <<>>>>, <<"<", <<>>>>, <<">", <<>>>> }

\* Orders in which range may visit the map: Go fixes none.  Every three keys
\* occur in each of their six relative orders in some member.
Orders ==
    { <<"/", "\\", ":", "*", "?", "\"", "<", ">", "|">>,
      <<"|", ">", "<", "\"", "?", "*", ":", "\\", "/">>,
      <<"*", "/", "?", "\\", "\"", ":", "<", "|", ">">>,
      <<":", "\"", "\\", ">", "/", "|", "<", "*", "?">>,
      <<">", "?", "<", "|", "/", "\\", ":", "\"", "*">>,
      <<"\"", "*", "<", "/", ">", "|", "\\", ":", "?">>,
      <<":", "|", "/", "?", "*", ">", "<", "\\", "\"">>,
      <<"\\", "<", ":", ">", "*", "?", "\"", "|", "/">>,
      <<"\\", "?", "/", "|", ">", "\"", "*", "<", ":">>,
      <<"*", "|", "/", ":", "\"", "\\", "?", "<", ">">>,
      <<"\"", ":", "<", "?", "*", ">", "/", "\\", "|">>,
      <<">", "\\", ":", "<", "*", "|", "/", "\"", "?">>,
      <<"/", "?", "<", "*", "\"", "|", "\\", ":", ">">> }

ReplacementOf(invalid) == (CHOOSE r \in replacements : r[1] = invalid)[2]

RECURSIVE ReplaceAll(_, _, _)
\* strings.ReplaceAll(s, old, new) for a one-character old
ReplaceAll(s, old, new) ==
    IF s = <<>> THEN <<>>
    ELSE (IF Head(s) = old THEN new ELSE <<Head(s)>>) \o ReplaceAll(Tail(s), old, new)

RECURSIVE ReplaceDashPairs(_)
\* strings.ReplaceAll(s, "--", "-"): non-overlapping pairs, left to right
ReplaceDashPairs(s) ==
    IF Len(s) < 2 THEN s
    ELSE IF s[1] = "-" /\ s[2] = "-"
         THEN <<"-">> \o ReplaceDashPairs(SubSeq(s, 3, Len(s)))
    ELSE <<s[1]>> \o ReplaceDashPairs(Tail(s))

\* strings.Contains(s, "--")
ContainsDashPair(s) == \E i \in 1..(Len(s) - 1) : s[i] = "-" /\ s[i + 1] = "-"

RECURSIVE CollapseDashes(_)
\* for strings.Contains(sanitized, "--") { sanitized = ReplaceAll(...) }
CollapseDashes(s) ==
    IF ContainsDashPair(s) THEN CollapseDashes(ReplaceDashPairs(s)) ELSE s

RECURSIVE ApplyReplacements(_, _)
\* The range loop over replacements, visiting the keys in the given order
ApplyReplacements(s, order) ==
    IF order = <<>> THEN s
    ELSE ApplyReplacements(ReplaceAll(s, Head(order), ReplacementOf(Head(order))),
                           Tail(order))

\* Variant: the pairs of dashes are replaced in one pass only
sanitizeFilenameOnePass(filename, order) ==
    ReplaceDashPairs(TrimSpace(ApplyReplacements(filename, order)))

sanitizeFilename(filename, order) ==
    CollapseDashes(TrimSpace(ApplyReplacements(filename, order)))

\* filepath.Clean of a path without a separator, which is all createFilename
\* builds from a sanitized title: the path itself, "." for the empty path
Clean(path) == IF path = <<>> THEN <<".">> ELSE path

createFilename(title, mediaType, episodeNr, useEpisode, order) ==
    LET parts == Split(mediaType, "/")
        extension == IF Len(parts) >= minMediaTypeParts THEN parts[2]
                     ELSE <<"m", "p", "4">>
        sanitizedTitle == ReplaceAll(sanitizeFilename(title, order), " ", <<"_">>)
        filename == IF useEpisode /\ episodeNr # <<>>
                    THEN episodeNr \o <<"_">> \o sanitizedTitle \o <<".">> \o extension
                    ELSE sanitizedTitle \o <<".">> \o extension
    IN  Clean(filename)

\* The characters titles are made of: a letter, a space, a dash and the
\* nine characters sanitizeFilename deals with
TitleChars == {"a", " ", "-", "/", "\\", ":", "*", "?", "\"", "<", ">", "|"}

Titles == UNION {[1..n -> TitleChars] : n \in 0..MaxTitle}

MediaTypes == {<<"v", "i", "d", "e", "o", "/", "m", "p", "4">>, <<"v", "i", "d", "e", "o">>}

EpisodeNrs == {<<>>, <<"0", "1">>}

FnIdle ==
    /\ fnTitle = <<>>
    /\ fnMediaType = <<>>
    /\ fnEpisode = <<>>
    /\ fnUseEpisode = FALSE
    /\ fnPc = "idle"
    /\ fnOut = <<>>
    /\ fnSeen = {}

FnInit ==
    /\ fnTitle \in Titles
    /\ fnMediaType \in MediaTypes
    /\ fnEpisode \in EpisodeNrs
    /\ fnUseEpisode \in BOOLEAN
    /\ fnPc = "ready"
    /\ fnOut = <<>>
    /\ fnSeen = {}

CreateFilenameCall ==
    /\ fnPc \in {"ready", "done"}
    /\ \E name \in {createFilename(fnTitle, fnMediaType, fnEpisode, fnUseEpisode, order) :
                        order \in Orders} :
          /\ fnOut' = name
          /\ fnSeen' = fnSeen \cup {name}
    /\ fnPc' = IF fnPc = "ready" THEN "done" ELSE "again"
    /\ UNCHANGED <<fnTitle, fnMediaType, fnEpisode, fnUseEpisode>>
    /\ UNCHANGED <<selVars, chanVars, dispVars>>
    /\ AuxUnchangedExcept("fn")

\* ------------------------------------------------------------------------
\* The progress line: truncateProgressMessage
\* ------------------------------------------------------------------------
MaxMessage == 5

MaxWidth == 6

truncationSuffix == <<".", ".", ".">>

truncationSuffixLength == 3

truncateProgressMessage(progress, termWidth) ==
    IF Len(progress) > termWidth
    THEN LET maxLength == Max(0, termWidth - truncationSuffixLength)
         IN  SubSeq(progress, 1, maxLength) \o truncationSuffix
    ELSE progress

\* Progress messages: text that may itself hold dots
Messages == UNION {[1..n -> {"a", "."}] : n \in 0..MaxMessage}

TmIdle ==
    /\ tmProgress = <<>>
    /\ tmTermWidth = 0
    /\ tmPc = "idle"
    /\ tmOut = <<>>

TmInit ==
    /\ tmProgress \in Messages
    /\ tmTermWidth \in 0..MaxWidth
    /\ tmPc = "ready"
    /\ tmOut = <<>>

TruncateProgressMessageCall ==
    /\ tmPc = "ready"
    /\ tmOut' = truncateProgressMessage(tmProgress, tmTermWidth)
    /\ tmPc' = "done"
    /\ UNCHANGED <<tmProgress, tmTermWidth>>
    /\ UNCHANGED <<selVars, chanVars, dispVars>>
    /\ AuxUnchangedExcept("tm")

\* ------------------------------------------------------------------------
\* Specifications
\* ------------------------------------------------------------------------
SelIdle ==
    /\ selTokens = <<>>
    /\ selInput = <<>>
    /\ selBound = 0
    /\ selPc = "idle"
    /\ selIndices = <<>>
    /\ selErr = NoError

\* Every group of auxVars but g is idle
AuxIdleExcept(g) ==
    /\ (g = "sv" \/ SvIdle)
    /\ (g = "pg" \/ PgIdle)
    /\ (g = "cp" \/ CpIdle)
    /\ (g = "v" \/ VIdle)
    /\ (g = "cmd" \/ CmdIdle)
    /\ (g = "fn" \/ FnIdle)
    /\ (g = "tm" \/ TmIdle)

Init == ChanInit /\ SelIdle /\ DispIdle /\ AuxIdleExcept("none")

Next ==
    \/ GetMetadata
    \/ GetVideos
    \/ SelectVideosStep
    \/ CreateChannelFolder
    \/ PrepareDownloads
    \/ ProcessDownloads
    \/ PrintResults

Spec == Init /\ [][Next]_vars

DispNext ==
    \/ Extract
    \/ GetToken
    \/ DownloadVideoCall
    \/ DownloadChannelCall

InitDispatch == DispInit /\ SelIdle /\ ChanIdle /\ AuxIdleExcept("none")

SpecDispatch == InitDispatch /\ [][DispNext]_vars

SelNext == ParseSelectionCall

InitSelect == SelInit /\ ChanIdle /\ DispIdle /\ AuxIdleExcept("none")

SpecSelect == InitSelect /\ [][SelNext]_vars

SvNext == SelectVideosCall

InitSelectVideos == SvInit /\ SelIdle /\ ChanIdle /\ DispIdle /\ AuxIdleExcept("sv")

SpecSelectVideos == InitSelectVideos /\ [][SvNext]_vars

PgNext == ShowProgressCall

InitProgress == PgInit /\ SelIdle /\ ChanIdle /\ DispIdle /\ AuxIdleExcept("pg")

SpecProgress == InitProgress /\ [][PgNext]_vars

CpNext ==
    \/ CopyIteration
    \/ CopyFinal

InitCopy == CpInit /\ SelIdle /\ ChanIdle /\ DispIdle /\ AuxIdleExcept("cp")

SpecCopy == InitCopy /\ [][CpNext]_vars

VNext ==
    \/ VideoGetMetadata
    \/ VideoGetVariants
    \/ VideoCheckExisting
    \/ VideoCreateFile
    \/ VideoDownloadProcess

InitVideo == VInit /\ SelIdle /\ ChanIdle /\ DispIdle /\ AuxIdleExcept("v")

SpecVideo == InitVideo /\ [][VNext]_vars

CmdNext ==
    \/ CmdRejectArgs
    \/ Extract
    \/ GetToken
    \/ DownloadVideoCall
    \/ DownloadChannelCall
    \/ CmdRunReturns

\* Download is called only when the arguments pass cobra.ExactArgs(1)
InitCmd ==
    /\ CmdInit
    /\ IF cmdArgs = 1 THEN DispInit ELSE DispIdle
    /\ SelIdle
    /\ ChanIdle
    /\ AuxIdleExcept("cmd")

SpecCmd == InitCmd /\ [][CmdNext]_vars

FnNext == CreateFilenameCall

InitFilename == FnInit /\ SelIdle /\ ChanIdle /\ DispIdle /\ AuxIdleExcept("fn")

SpecFilename == InitFilename /\ [][FnNext]_vars

TmNext == TruncateProgressMessageCall

InitTruncate == TmInit /\ SelIdle /\ ChanIdle /\ DispIdle /\ AuxIdleExcept("tm")

SpecTruncate == InitTruncate /\ [][TmNext]_vars

\* ------------------------------------------------------------------------
\* Properties of the channel batch
\* ------------------------------------------------------------------------
\* downloadChannel has returned after running downloadSelectedVideos
BatchDone == pc = "returned" /\ config.Output = "channel"

FateOf(idx) == CHOOSE f \in {fate[i] : i \in 1..Len(fate)} : f.idx = idx

Handled(idx) == \E i \in 1..Len(fate) : fate[i].idx = idx

PassedPreflight(idx) == Handled(idx) /\ FateOf(idx).preflight = "passed"

\* C1: whatever the per-video outcomes, every selected video is looked up in
\* pre-flight, every one that passes has its download invoked exactly once,
\* in selection order, and downloadChannel returns nil.
C1_BatchNeverAborts ==
    BatchDone
    => /\ ret = NoError
       /\ \A i \in 1..Len(selectedIndices) : Handled(selectedIndices[i])
       /\ downloads = SelectSeq(selectedIndices, PassedPreflight)

C1_Witness ==
    /\ BatchDone
    /\ selectedIndices = <<0, 1, 2>>
    /\ FateOf(0).preflight = "variantsFailed"
    /\ FateOf(1).download = "failed"
    /\ FateOf(2).download = "failed"
    /\ downloads = <<1, 2>>
    /\ ret = NoError

\* C2: with 3 selected videos where only the variant fetch of video #2 fails
\* and the downloads of #1 and #3 succeed, #1 and #3 are downloaded, the
\* summary reports 2 successful out of 3 selected, and the failure list is
\* exactly the title of video #2.
C2_TwoOfThreeSummary ==
    ( /\ BatchDone
      /\ selectedIndices = <<0, 1, 2>>
      /\ FateOf(0).preflight = "passed" /\ FateOf(0).download = "succeeded"
      /\ FateOf(1).preflight = "variantsFailed"
      /\ FateOf(2).preflight = "passed" /\ FateOf(2).download = "succeeded" )
    => /\ downloads = <<0, 2>>
       /\ summary.successful = 2
       /\ summary.selected = 3
       /\ summary.failed = <<Title(2)>>

\* ------------------------------------------------------------------------
\* Properties of the classifier and the dispatcher
\* ------------------------------------------------------------------------
Extracted == dPc # "extract" /\ dPc # "idle"

Returned == dPc = "returned"

\* The typed body has no whitespace at either end, so that trimming the
\* media reference leaves exactly the body
CleanBody ==
    LET body == Body(mediaParts.form, mediaParts.tail)
    IN  body = <<>> \/ (~IsSpace(body[1]) /\ ~IsSpace(body[Len(body)]))

\* The typed body starts with the base URL
StartsWithBase(form, tail) ==
    \/ form \in {"video", "channel", "otherPath", "baseOnly", "videoNoSlash"}
    \/ form = "hostNoSlash" /\ tail # <<>> /\ tail[1] = "/"

\* What follows the base URL in a body that starts with it
AfterBase(form, tail) ==
    IF form = "video" THEN videoPrefix \o tail
    ELSE IF form = "channel" THEN channelPrefix \o tail
    ELSE IF form = "otherPath" THEN <<"x", "/">> \o tail
    ELSE IF form = "videoNoSlash" THEN <<"v", "i", "d", "e", "o", "s">> \o tail
    ELSE IF form = "hostNoSlash" THEN Tail(tail)
    ELSE tail

\* s is prefix followed by X
IsPrefixPlus(s, prefix, X) == s = prefix \o X

\* What is left of s after its first n characters
Drop(s, n) == SubSeq(s, n + 1, Len(s))

\* The typed body is the base URL followed by neither videos/ nor channels/
UnrecognizedPath(form, tail) ==
    /\ StartsWithBase(form, tail)
    /\ LET rest == AfterBase(form, tail)
       IN  /\ ~IsPrefixPlus(rest, videoPrefix, Drop(rest, Len(videoPrefix)))
           /\ ~IsPrefixPlus(rest, channelPrefix, Drop(rest, Len(channelPrefix)))

\* C4: after trimming, an input not starting with the base URL gives
\* (input, Unknown, nil); base URL + "videos/" + X gives (X, Video, nil);
\* base URL + "channels/" + X gives (X, Channel, nil); any other input
\* starting with the base URL gives (remainder, Unknown, ErrInvalidURL).
C4_Classification ==
    (Extracted /\ CleanBody)
    => LET form == mediaParts.form
           tail == mediaParts.tail
           rest == AfterBase(form, tail)
           videoX == Drop(rest, Len(videoPrefix))
           channelX == Drop(rest, Len(channelPrefix))
       IN  /\ ~StartsWithBase(form, tail)
              => /\ dId = Body(form, tail)
                 /\ dType = "unknownType"
                 /\ dErr = NoError
           /\ (StartsWithBase(form, tail) /\ IsPrefixPlus(rest, videoPrefix, videoX))
              => dId = videoX /\ dType = "videoType" /\ dErr = NoError
           /\ (StartsWithBase(form, tail) /\ IsPrefixPlus(rest, channelPrefix, channelX))
              => dId = channelX /\ dType = "channelType" /\ dErr = NoError
           /\ UnrecognizedPath(form, tail)
              => /\ dId = rest
                 /\ dType = "unknownType"
                 /\ dErr = <<"errInvalidURL">>

C4_Witness ==
    /\ Extracted
    /\ mediaParts = [lpad |-> <<"\t", " ">>, form |-> "video",
                     tail |-> <<"7">>, rpad |-> <<" ">>]
    /\ dId = <<"7">>
    /\ dType = "videoType"
    /\ dErr = NoError

\* C3: with Unknown the video path runs first and the channel path runs if
\* and only if the video attempt returned an error; with Video a failed
\* attempt is returned as an error and the channel path never runs; with
\* Channel the video path never runs.
C3_FallbackOnlyForUnknown ==
    (Returned /\ Len(dCalls) > 1)
    => LET attempts == Tail(dCalls)
       IN  /\ dType = "unknownType"
              => /\ attempts[1] = "downloadVideo"
                 /\ (dVideoErr = NoError) => attempts = <<"downloadVideo">>
                 /\ (dVideoErr # NoError)
                    => attempts = <<"downloadVideo", "downloadChannel">>
           /\ dType = "videoType"
              => /\ attempts = <<"downloadVideo">>
                 /\ (dVideoErr # NoError)
                    => /\ dRet # NoError
                       /\ ErrorsIs(dRet, "errFailedToDownloadVideo")
           /\ dType = "channelType" => attempts = <<"downloadChannel">>

C3_Witness ==
    /\ Returned
    /\ dType = "unknownType"
    /\ dVideoErr # NoError
    /\ dCalls = <<"token.Get", "downloadVideo", "downloadChannel">>

\* C5: a media reference that starts with the base URL but has an
\* unrecognized path segment makes Download return an error wrapping
\* errInvalidURL at once: no token lookup, no request, no video or channel
\* attempt.
C5_InvalidURLReturnsAtOnce ==
    (Extracted /\ CleanBody /\ UnrecognizedPath(mediaParts.form, mediaParts.tail))
    => /\ Returned
       /\ ErrorsIs(dRet, "errInvalidURL")
       /\ dCalls = <<>>
       /\ dRequests = <<>>

C5_Witness ==
    /\ Returned
    /\ mediaParts = [lpad |-> <<>>, form |-> "otherPath",
                     tail |-> <<"7">>, rpad |-> <<>>]
    /\ dRet = <<"errFailedToExtractType", "errInvalidURL">>
    /\ dCalls = <<>>
    /\ dRequests = <<>>

\* ------------------------------------------------------------------------
\* Properties of the selection parser
\* ------------------------------------------------------------------------
SelDone == selPc = "done"

\* The token is the range a-b, as typed
IsRange(tok, a, b) == tok = RangeToken(a, b)

\* A number or a range that breaks the upper bound or the order
Offending(tok, bound) ==
    \/ \E n \in Numbers : tok = NumberToken(n) /\ n > bound
    \/ \E n, m \in Numbers :
          IsRange(tok, n, m) /\ (n > bound \/ m > bound \/ n > m)

WellFormed(tok) == tok \in NumberTokens \cup RangeTokens

\* Two errors that some errors.Is test tells apart
SelSentinels ==
    { "errInvalidRange", "errInvalidNumber", "errInvalidEndNumber",
      "errNumberOutOfRange", "errInvalidRangeFormat", "errInvalidStartNumber",
      "errNoValidSelectionsFound" }

Distinguishable(e1, e2) ==
    \E s \in SelSentinels : ErrorsIs(e1, s) # ErrorsIs(e2, s)

\* C6: a range token n-m with 1 <= n <= m <= bound yields exactly the
\* zero-based indices n-1, ..., m-1, in order, and no error.
C6_ValidRangeExact ==
    \A n, m \in Numbers :
        (SelDone /\ selTokens = <<RangeToken(n, m)>>
            /\ 1 <= n /\ n <= m /\ m <= selBound)
        => /\ selErr = NoError
           /\ selIndices = [i \in 1..(m - n + 1) |-> n - 2 + i]

C6_Witness ==
    /\ SelDone
    /\ selTokens = <<RangeToken(1, 2)>>
    /\ selBound = 2
    /\ selIndices = <<0, 1>>

\* C7: an input of numbers and ranges of which one is a number n > bound or
\* a range n-m with n > bound, m > bound or n > m yields an out-of-range or
\* invalid-range error and a nil result.
C7_OutOfRangeRejected ==
    ( /\ SelDone
      /\ \A i \in 1..Len(selTokens) : WellFormed(selTokens[i])
      /\ \E j \in 1..Len(selTokens) : Offending(selTokens[j], selBound) )
    => /\ selIndices = <<>>
       /\ \/ selErr = <<"errNumberOutOfRange">>
          \/ selErr = <<"errInvalidRange">>

C7_Witness ==
    /\ SelDone
    /\ selTokens = <<NumberToken(2)>>
    /\ selBound = 1
    /\ selErr = <<"errNumberOutOfRange">>
    /\ selIndices = <<>>

\* C8: a successful result is strictly ascending and every element lies in
\* [0, N).
C8_SortedInBounds ==
    (SelDone /\ selErr = NoError)
    => \A i \in 1..Len(selIndices) :
          /\ 0 <= selIndices[i] /\ selIndices[i] < selBound
          /\ i < Len(selIndices) => selIndices[i] < selIndices[i + 1]

C8_Witness ==
    /\ SelDone
    /\ selTokens = <<NumberToken(2), RangeToken(1, 2)>>
    /\ selBound = 2
    /\ selErr = NoError
    /\ selIndices = <<0, 1>>

\* C9: an input made of comma and space separators only yields
\* errNoValidSelectionsFound and a nil result, never every index.
C9_OnlySeparatorsIsError ==
    (SelDone /\ \A i \in 1..Len(selInput) : IsSeparator(selInput[i]))
    => /\ selErr = <<"errNoValidSelectionsFound">>
       /\ selIndices = <<>>

C9_Witness ==
    /\ SelDone
    /\ selInput = <<",">>
    /\ selBound = 1
    /\ selErr = <<"errNoValidSelectionsFound">>

\* In-bounds reversed range, and range with an endpoint out of bounds
Reversed(a, b, bound) == 1 <= b /\ b < a /\ a <= bound

EndpointOut(a, b, bound) == a < 1 \/ b > bound

\* C10 as stated: the error of a reversed range a-b (a > b, both endpoints
\* within bounds) is told apart by errors.Is from the error of every range
\* with an endpoint out of bounds.
C10_OriginalDistinctKinds ==
    \A a, b, c, d \in Numbers :
        (SelDone /\ selTokens = <<RangeToken(a, b)>> /\ Reversed(a, b, selBound)
            /\ EndpointOut(c, d, selBound))
        => Distinguishable(selErr, parseSelection(RangeToken(c, d), selBound).err)

\* C10 amended: a reversed range and a range with an endpoint out of bounds
\* are both reported as errInvalidRange, and no errors.Is test tells the
\* two errors apart.
C10_SameInvalidRangeKind ==
    \A a, b \in Numbers :
        (SelDone /\ selTokens = <<RangeToken(a, b)>>
            /\ (Reversed(a, b, selBound) \/ EndpointOut(a, b, selBound)))
        => /\ ErrorsIs(selErr, "errInvalidRange")
           /\ \A c, d \in Numbers :
                 (Reversed(c, d, selBound) \/ EndpointOut(c, d, selBound))
                 => ~Distinguishable(
                        selErr, parseSelection(RangeToken(c, d), selBound).err)

C10_Witness ==
    /\ SelDone
    /\ selTokens = <<RangeToken(2, 1)>>
    /\ selBound = 2
    /\ selErr = <<"errInvalidRange">>

\* ------------------------------------------------------------------------
\* Properties of ui.SelectVideos
\* ------------------------------------------------------------------------
SvDone == svPc = "done"

\* The line consists of white space only
Blank(line) == \A i \in 1..Len(line) : line[i] \in {" ", "\t"}

Ascending(n) == [i \in 1..n |-> i - 1]

\* C11: SelectVideos returns all indices 0..N-1 in ascending order when the
\* all flag is set, when the video list is empty, or when the typed line is
\* empty after trimming; when the all flag is set or the list is empty it
\* prints nothing and reads no input.
C11_SelectAll ==
    SvDone
    => /\ (svAll \/ Len(svVideos) = 0 \/ Blank(svTyped))
          => (svOut.indices = Ascending(Len(svVideos)) /\ svOut.err = NoError)
       /\ (svAll \/ Len(svVideos) = 0)
          => (svOut.printed = <<>> /\ svOut.reads = 0)

C11_Witness ==
    /\ SvDone
    /\ svAll
    /\ Len(svVideos) = 2
    /\ svTyped = <<"1">>
    /\ svOut.indices = <<0, 1>>
    /\ svOut.printed = <<>>
    /\ svOut.reads = 0

\* ------------------------------------------------------------------------
\* Properties of the progress renderer
\* ------------------------------------------------------------------------
PgDone == pgPc = "done"

\* C14: ShowProgress called with total = 0 or total = -1 and written >= 0
\* does not panic, and the number of filled cells of the bar it renders is
\* between 0 and the bar length.
C14_UnknownTotalRenders ==
    (PgDone /\ pgTotal \in {0, -1} /\ pgWritten >= 0)
    => /\ ~pgOut.panicked
       /\ 0 <= pgOut.filled
       /\ pgOut.filled <= pgOut.barLength

\* ------------------------------------------------------------------------
\* Properties of the stream copy
\* ------------------------------------------------------------------------
\* copyWithProgress is over: it returned, or a panic unwound it
CopyOver == cpPc \in {"returned", "panicked"}

EndsWithEOF(src) == src[Len(src)].err = "EOF"

HasEvent(op) == \E i \in 1..Len(cpLog) : cpLog[i].op = op

LastEvent == cpLog[Len(cpLog)]

\* The Read that failed has been issued
ReadFailureSeen == cpPos > Len(cpSource) /\ cpSource[Len(cpSource)].err = "fail"

\* C12: for a source that delivers a finite sequence of chunks, zero-length
\* ones included, and then end-of-stream, copyWithProgress returns nil, the
\* sink has received exactly the chunks in order and written is the number of
\* bytes delivered; one zero-length read followed by EOF gives written = 0.
C12_CopyDeliversAll ==
    (EndsWithEOF(cpSource) /\ ~HasEvent("writeFailed"))
    => /\ cpPc # "panicked"
       /\ cpPc = "returned"
          => /\ cpErr = NoError
             /\ cpSink = Delivered(cpSource)
             /\ cpWritten = Len(Delivered(cpSource))

RECURSIVE BytesWritten(_)
\* The bytes of the successful writes of a log
BytesWritten(log) ==
    IF log = <<>> THEN 0
    ELSE BytesWritten(SubSeq(log, 1, Len(log) - 1))
         + (IF log[Len(log)].op = "write" THEN log[Len(log)].n ELSE 0)

\* The positions of cpLog that are calls of the renderer
Reports == {i \in 1..Len(cpLog) : cpLog[i].op = "report"}

AfterWrite(i) == i > 1 /\ cpLog[i - 1].op = "write"

\* Every read was issued and the last one returned EOF
EndOfStreamSeen == cpPos > Len(cpSource) /\ EndsWithEOF(cpSource)

\* C25: copyWithProgress calls the renderer right after each written
\* non-empty chunk, with the bytes written so far; a call that follows no
\* write is the last entry of the log and comes after end-of-stream; a copy
\* that returned nil ends with exactly that call; the values passed never
\* decrease and the last one is the number of bytes copied.
C25_ReportsFollowWrites ==
    /\ \A i \in 1..Len(cpLog) :
          cpLog[i].op = "write"
          => /\ i < Len(cpLog)
             /\ cpLog[i + 1] = Event("report", BytesWritten(SubSeq(cpLog, 1, i)))
    /\ \A i \in Reports :
          /\ cpLog[i].n = BytesWritten(SubSeq(cpLog, 1, i))
          /\ ~AfterWrite(i) => (i = Len(cpLog) /\ EndOfStreamSeen)
          /\ \A j \in Reports : j < i => cpLog[j].n <= cpLog[i].n
    /\ (cpPc = "returned" /\ cpErr = NoError)
       => /\ Len(cpLog) \in Reports
          /\ ~AfterWrite(Len(cpLog))
          /\ LastEvent.n = Len(cpSink)

C25_Witness ==
    /\ cpPc = "returned"
    /\ cpErr = NoError
    /\ cpLog = <<Event("read", 1), Event("write", 1), Event("report", 1),
                 Event("read", 0),
                 Event("read", 2), Event("write", 2), Event("report", 3),
                 Event("report", 3)>>

\* ------------------------------------------------------------------------
\* Properties of the channel batch: existing files and empty channels
\* ------------------------------------------------------------------------
HasDone(op) == \E i \in 1..Len(events) : events[i].op = op

InSeq(x, seq) == \E i \in 1..Len(seq) : seq[i] = x

\* The destination of the video exists and is not to be overwritten:
\* skip-existing is set, or the overwrite prompt was declined
ExistingAndSkipped(f) == f.exists /\ ~config.Force /\ (config.Skip \/ f.declined)

\* C16: in a channel download, a selected video whose destination file
\* exists and is skipped (skip-existing set, or the overwrite prompt
\* declined) is not downloaded, is not added to the failed list, and does
\* not stop the batch.
C16_SkippedIsNotFailed ==
    \A i \in 1..Len(fate) :
        ExistingAndSkipped(fate[i])
        => /\ ~InSeq(fate[i].idx, downloads)
           /\ ~InSeq(fate[i].idx, toDownload)
           /\ ~InSeq(VideoAt(videos, fate[i].idx).Title, failed)
           /\ pc = "returned"
              => /\ ret = NoError
                 /\ Len(fate) = Len(selectedIndices)
                 /\ downloads = SelectSeq(selectedIndices, PassedPreflight)
                 /\ HasDone("summary")

C16_Witness ==
    /\ BatchDone
    /\ selectedIndices = <<0, 1, 2>>
    /\ config.Skip /\ ~config.Force
    /\ FateOf(0).exists /\ FateOf(0).preflight = "skipped"
    /\ FateOf(1).download = "succeeded"
    /\ FateOf(2).download = "failed"
    /\ downloads = <<1, 2>>
    /\ failed = <<Title(3)>>

\* The channel's video list was fetched and is empty
EmptyChannel == HasDone("videosFetched") /\ videos = <<>>

\* C19: when the channel's video list is empty, downloadChannel returns nil
\* without prompting for a selection, without creating a folder and without
\* requesting any video's metadata or variants.
C19_EmptyChannelReturns ==
    EmptyChannel
    => /\ pc = "returned"
       /\ ret = NoError
       /\ ~HasDone("selectionPrompt")
       /\ ~HasDone("createFolder")
       /\ config.Output = "."
       /\ \A i \in 1..Len(requests) : requests[i].kind \in {"channel", "channelVideos"}
       /\ downloads = <<>>

C19_Witness ==
    /\ EmptyChannel
    /\ pc = "returned"
    /\ ret = NoError
    /\ Len(requests) = 2
    /\ events = <<Did("videosFetched", -1)>>

\* ------------------------------------------------------------------------
\* Properties of one video download
\* ------------------------------------------------------------------------
\* The variant fetch has returned
VariantsFetched == InSeq("variants", vLog)

\* The server answered 200 with a list that decodes and is empty
EmptyListAnswer ==
    /\ vEnv.variants.transport
    /\ vEnv.variants.status = 200
    /\ vEnv.variants.decodes
    /\ vEnv.variants.list = <<>>

\* C15: the variant fetch returns errNoVariantsFound, never an empty list
\* with a nil error, whenever the server answers 200 with an empty variant
\* list; that error matches neither the decode error nor errHTTPNotOK.
C15_EmptyListIsAnError ==
    (VariantsFetched /\ EmptyListAnswer)
    => /\ vFetched.err # NoError
       /\ ErrorsIs(vFetched.err, "errNoVariantsFound")
       /\ ~ErrorsIs(vFetched.err, "errFailedDecodeVariants")
       /\ ~ErrorsIs(vFetched.err, "errHTTPNotOK")

\* downloadVideo got as far as the destination file: metadata and a
\* non-empty variant list were fetched
ReachedFile ==
    /\ vEnv.meta
    /\ FetchError(vEnv.variants) = NoError
    /\ Len(vEnv.variants.list) > 0

\* The destination exists and may not be overwritten: Force is unset and
\* skip-existing is set or the user answers no
MustKeepExisting ==
    vEnv.exists /\ ~vConfig.Force /\ (vConfig.Skip \/ ~vEnv.answer)

\* C17: at the single-video entry point, when the destination file exists
\* and, without force, skip-existing is set or the overwrite prompt is
\* declined, the video download returns an error matching
\* ErrFileCreationAborted and the existing file is neither truncated nor
\* rewritten.
C17_ExistingFileAborts ==
    (vPc = "returned" /\ ReachedFile /\ MustKeepExisting)
    => /\ vRet # NoError
       /\ ErrorsIs(vRet, "ErrFileCreationAborted")
       /\ vDisk = "old"
       /\ ~InSeq("create", vLog)

\* ------------------------------------------------------------------------
\* Properties of the download command
\* ------------------------------------------------------------------------
\* C18: whenever Download returns an error to the download command, the
\* process exits with code 1; it exits with code 0 only when no top-level
\* error occurred.
C18_ExitCodeReflectsError ==
    (cmdPc = "exited" /\ cmdArgs = 1)
    => /\ dRet # NoError => exitCode = 1
       /\ exitCode = 0 => dRet = NoError

\* ------------------------------------------------------------------------
\* Properties of the filename policy
\* ------------------------------------------------------------------------
FnDone == fnPc \in {"done", "again"}

Forbidden == {"/", "\\", ":", "*", "?", "\"", "<", ">", "|"}

WellFormedMediaType == fnMediaType = <<"v", "i", "d", "e", "o", "/", "m", "p", "4">>

NoEpisodePrefix == ~(fnUseEpisode /\ fnEpisode # <<>>)

\* C20: for a title of ordinary characters and the characters
\* / \ : * ? " < > |, a well-formed media type and no episode prefix, the
\* filename createFilename computes contains none of those nine characters
\* and no two consecutive dashes.
C20_FilenameIsClean ==
    (FnDone /\ WellFormedMediaType /\ NoEpisodePrefix)
    => /\ \A i \in 1..Len(fnOut) : fnOut[i] \notin Forbidden
       /\ \A i \in 1..(Len(fnOut) - 1) : ~(fnOut[i] = "-" /\ fnOut[i + 1] = "-")

C20_Witness ==
    /\ FnDone
    /\ WellFormedMediaType
    /\ NoEpisodePrefix
    /\ fnTitle = <<"/", "*", ":">>
    /\ fnOut = <<"-", ".", "m", "p", "4">>

\* C21: however the replacement table is iterated, all computations of
\* createFilename from the same title, media type, episode and use-episode
\* flag yield one and the same string.
C21_SameInputsSameFilename == Cardinality(fnSeen) <= 1

C21_Witness ==
    /\ fnPc = "again"
    /\ fnTitle = <<"|", "*", "/">>
    /\ fnUseEpisode
    /\ fnEpisode = <<"0", "1">>
    /\ fnSeen = {<<"0", "1", "_", "-", ".", "m", "p", "4">>}

\* ------------------------------------------------------------------------
\* Further properties of the selection parser
\* ------------------------------------------------------------------------
\* The error of a token typed alone
TokenError(tok, bound) == parseSelection(tok, bound).err

\* A token that is rejected: typed alone it gives an error other than the
\* one for an input without selections, which is what a blank token gives
Invalid(tok, bound) ==
    TokenError(tok, bound) \notin {NoError, <<"errNoValidSelectionsFound">>}

FirstInvalid(toks, bound) ==
    CHOOSE i \in 1..Len(toks) :
        /\ Invalid(toks[i], bound)
        /\ \A j \in 1..(i - 1) : ~Invalid(toks[j], bound)

\* C29: if a token of the input is invalid, parseSelection returns nil and
\* the error of the first invalid token from the left, whatever valid or
\* invalid tokens stand before or after it; an error never comes with
\* indices.
C29_AllOrNothing ==
    SelDone
    => /\ selErr # NoError => selIndices = <<>>
       /\ (\E i \in 1..Len(selTokens) : Invalid(selTokens[i], selBound))
          => /\ selIndices = <<>>
             /\ selErr = TokenError(selTokens[FirstInvalid(selTokens, selBound)],
                                    selBound)

C29_Witness ==
    /\ SelDone
    /\ selBound = 2
    /\ selTokens = <<RangeToken(2, 1), NumberToken(3)>>
    /\ selErr = <<"errInvalidRange">>
    /\ selIndices = <<>>

\* ------------------------------------------------------------------------
\* Further properties of the dispatcher
\* ------------------------------------------------------------------------
\* The sentinels only a video attempt puts in an error
VideoSentinels ==
    { "errFailedToDownloadVideo", "errFailedGetVideoInfo", "errFailedGetVideoVariants",
      "errNoVariantsFound", "errFailedToCreateVideoFile", "ErrFileCreationAborted",
      "ErrCreateFile", "errFailedCopyVideoData" }

\* Every channel failure, as downloadChannel returns it
ChannelFailures ==
    { <<"errFailedGetChannelInfo", "errFailedDecodeChannelMeta", "errHTTPNotOK">>,
      <<"errFailedGetChannelVideos", "errFailedDecodeChannelVideos", "errHTTPNotOK">>,
      <<"errFailedSelectVideos", "errInvalidNumber">>,
      <<"errFailedToCreateChannelFolder", "errFailedCreateFolder">> }

BothAttemptsFailed ==
    /\ Returned
    /\ dType = "unknownType"
    /\ dVideoErr # NoError
    /\ dCalls = <<"token.Get", "downloadVideo", "downloadChannel">>
    /\ dRet # NoError

\* C30: when an unclassified reference fails as a video and then as a
\* channel, Download returns errFailedToDownloadChannel wrapping the
\* channel failure and nothing else: no sentinel of the video attempt is
\* in the chain.
C30_OnlyChannelFailureReturned ==
    BothAttemptsFailed
    => /\ ErrorsIs(dRet, "errFailedToDownloadChannel")
       /\ \E c \in ChannelFailures : dRet = <<"errFailedToDownloadChannel">> \o c
       /\ \A v \in VideoSentinels : ~ErrorsIs(dRet, v)

C30_Witness ==
    /\ BothAttemptsFailed
    /\ dVideoErr = <<"errFailedGetVideoInfo", "errHTTPNotOK">>
    /\ dRet = <<"errFailedToDownloadChannel", "errFailedToCreateChannelFolder",
                "errFailedCreateFolder">>

\* ------------------------------------------------------------------------
\* Further properties of one video download
\* ------------------------------------------------------------------------
VReturned == vPc = "returned"

\* C22: when downloadVideo has returned, on whatever path, the destination
\* file it opened is closed.
C22_FileClosedOnReturn == VReturned => ~vOpen

\* The steps of vLog that are among the four of the claim, in log order
RECURSIVE StepsOf(_)
StepsOf(log) ==
    IF log = <<>> THEN <<>>
    ELSE IF Head(log) \in {"metadata", "variants", "create", "stream"}
         THEN <<Head(log)>> \o StepsOf(Tail(log))
    ELSE StepsOf(Tail(log))

StepOrder == <<"metadata", "variants", "create", "stream">>

\* The variant fetch cannot deliver a variant: no answer, a status other
\* than 200, an undecodable body or an empty list
VariantFailure ==
    \/ ~vEnv.variants.transport
    \/ vEnv.variants.status # 200
    \/ ~vEnv.variants.decodes
    \/ vEnv.variants.list = <<>>

VariantCause ==
    IF ~vEnv.variants.transport THEN "transportError"
    ELSE IF vEnv.variants.status # 200 THEN "errHTTPNotOK"
    ELSE IF ~vEnv.variants.decodes THEN "jsonError"
    ELSE "errNoVariantsFound"

StreamCause ==
    IF vEnv.stream = "transport" THEN "transportError"
    ELSE IF vEnv.stream = "status" THEN "errHTTPNotOK"
    ELSE "errFailedReadData"

StepsInOrder == StepsOf(vLog) = SubSeq(StepOrder, 1, Len(StepsOf(vLog)))

MetadataFailureStops ==
    ~vEnv.meta
    => /\ ErrorsIs(vRet, "errFailedGetVideoInfo")
       /\ ErrorsIs(vRet, "errHTTPNotOK")
       /\ ~InSeq("variants", vLog)

VariantFailureStops ==
    (vEnv.meta /\ VariantFailure)
    => /\ ErrorsIs(vRet, "errFailedGetVideoVariants")
       /\ ErrorsIs(vRet, VariantCause)
       /\ ~InSeq("create", vLog)
       /\ vDisk = (IF vEnv.exists THEN "old" ELSE "none")

CreateFailureStops ==
    (vEnv.meta /\ ~VariantFailure /\ vRet # NoError /\ ~InSeq("create", vLog))
    => /\ ErrorsIs(vRet, "errFailedToCreateVideoFile")
       /\ (ErrorsIs(vRet, "osError") \/ ErrorsIs(vRet, "ErrFileCreationAborted"))
       /\ ~InSeq("stream", vLog)

StreamFailureStops ==
    (InSeq("stream", vLog) /\ vEnv.stream # "ok")
    => /\ ErrorsIs(vRet, "errFailedToDownloadVideo")
       /\ ErrorsIs(vRet, StreamCause)

\* C24: downloadVideo fetches metadata, fetches variants, creates the file
\* and downloads the stream in that order and returns at the first step
\* that fails, with that step's sentinel wrapping the cause: nothing is
\* fetched after a metadata failure, no file is created or truncated after
\* a variant failure (an empty list included), no stream is requested
\* after a file creation failure.
C24_StepsStopAtFirstFailure ==
    VReturned
    => /\ StepsInOrder
       /\ MetadataFailureStops
       /\ VariantFailureStops
       /\ CreateFailureStops
       /\ StreamFailureStops

PolicyAsked == vPolicy # "none"

PromptShown == InSeq("prompt", vLog)

\* C27: the overwrite policy answers "skip" exactly when the destination
\* exists, Force is not set and either Skip is set or the prompt is
\* declined; it prompts exactly when the destination exists and neither
\* Force nor Skip is set; for a destination that does not exist it answers
\* "proceed" without a prompt under every flag combination.
C27_OverwritePolicy ==
    PolicyAsked
    => /\ (vPolicy = "skip")
          <=> (vEnv.exists /\ ~vConfig.Force /\ (vConfig.Skip \/ ~vEnv.answer))
       /\ PromptShown <=> (vEnv.exists /\ ~vConfig.Force /\ ~vConfig.Skip)
       /\ ~vEnv.exists => (vPolicy = "proceed" /\ ~PromptShown)

C27_Witness ==
    /\ VReturned
    /\ vImpl = "function"
    /\ vPolicy = "skip"
    /\ PromptShown
    /\ vEnv.exists
    /\ ~vEnv.answer
    /\ vConfig = [Force |-> FALSE, Skip |-> FALSE]

\* ------------------------------------------------------------------------
\* Further properties of the channel batch
\* ------------------------------------------------------------------------
PreflightDoneBefore(j, idx) == \E i \in 1..(j - 1) : events[i] = Did("preflight", idx)

\* C23: when a download of the batch starts, pre-flight is over for every
\* selected video, and no overwrite prompt follows the start of a download.
C23_PreflightBeforeDownloads ==
    \A j \in 1..Len(events) :
        events[j].op = "download"
        => /\ \A k \in 1..Len(selectedIndices) :
                  PreflightDoneBefore(j, selectedIndices[k])
           /\ \A i \in (j + 1)..Len(events) : events[i].op # "overwritePrompt"

C23_Witness ==
    /\ pc = "returned"
    /\ Len(selectedIndices) = 2
    /\ \E i \in 1..Len(events) : events[i] = Did("overwritePrompt", selectedIndices[2])
    /\ downloads = selectedIndices

FolderCreated == \E i \in 1..Len(events) : events[i].op = "createFolder"

\* C26: every filename computation of pre-flight and every download of a
\* batch works in the channel folder, and the config the caller of the
\* channel download holds keeps the output directory it came with.
C26_BatchUsesChannelFolder ==
    /\ \A i \in 1..Len(usedDirs) : FolderCreated /\ usedDirs[i].dir = "channel"
    /\ callerConfig.Output = "."

C26_Witness ==
    /\ pc = "returned"
    /\ config.Output = "channel"
    /\ callerConfig.Output = "."
    /\ \E i, j \in 1..Len(usedDirs) :
          /\ usedDirs[i] = [op |-> "filename", video |-> 0, dir |-> "channel"]
          /\ usedDirs[j] = [op |-> "download", video |-> 0, dir |-> "channel"]

\* ------------------------------------------------------------------------
\* Properties of the progress line
\* ------------------------------------------------------------------------
TmDone == tmPc = "done"

EndsWithDots(str) ==
    /\ Len(str) >= 3
    /\ SubSeq(str, Len(str) - 2, Len(str)) = <<".", ".", ".">>

\* C28: for every message and every terminal width the string
\* truncateProgressMessage returns is no longer than the width; a message
\* that fits comes back unchanged, one that does not is cut and ends with
\* "...".
C28_MessageFitsTerminal ==
    TmDone
    => /\ Len(tmOut) <= tmTermWidth
       /\ Len(tmProgress) <= tmTermWidth => tmOut = tmProgress
       /\ Len(tmProgress) > tmTermWidth
          => (EndsWithDots(tmOut) /\ Len(tmOut) < Len(tmProgress) + 3)

====
